---- MODULE Spec2Model ----
(***************************************************************************)
(* A model of the order-execution engine of binance-trading-bot:           *)
(*   - BinanceClient._send_request: signing, retry/backoff, failover       *)
(*   - BinanceClient's response cache and the cached read operations       *)
(*   - two threads sharing one BinanceClient's cache                       *)
(*   - TradingBot.check_and_enter_position: entry, take-profit, stop-loss  *)
(*   - PositionManager: sizing, exit prices, hedging, entry admission      *)
(*   - TradingBot.run: the per-symbol loop and its daily suspension        *)
(*   - BotManager: start_bot, monitor, update_trading_pairs and main       *)
(*   - GridTradingBot: the grid state and its run loop                     *)
(***************************************************************************)
EXTENDS Integers, Sequences, FiniteSets, TLC

(***************************************************************************)
(* Bounds of the model                                                     *)
(***************************************************************************)
\* largest retry_count a call is made with (config.API_RETRY_COUNT is 3 by default)
MaxRetry == 3
\* largest number of fallback URLs configured in config.FALLBACK_BASE_URLS
MaxFallbacks == 2
\* largest Retry-After value (seconds) a 429 response carries
MaxRetryAfter == 7
\* largest number of market orders the exchange fills
MaxFills == 2
\* the last UTC day of the clock, the first being day 0
MaxDay == 2
\* largest number of units BotManager starts
MaxUnits == 3
\* largest number of periodic calls of update_trading_pairs
MaxUpdates == 1
\* largest number of orders the grid bot places
\* the calls of set_leverage in one chain of retries that are given an
\* outcome of their own
MaxRequests == 5
MaxOrders == 3
\* largest number of orders the exchange fills in two trades
MaxSplits == 1
\* orders the exchange closes without a fill
MaxExpired == 1
\* largest millisecond timestamp _get_timestamp returns
MaxStamp == 2
\* last second of the clock, and largest ttl, in the runs of the two cache functions
MaxTime == 4
MaxTtl == 2
\* the cached reads are observed every TickSeconds seconds up to second MaxNow
TickSeconds == 5
MaxNow == 15

(***************************************************************************)
(* Program constants                                                       *)
(***************************************************************************)
\* recv_window passed by every signed operation of BinanceClient
RecvWindow == 60000

VARIABLES
    \* ---- BinanceClient: endpoint state (self.base_url, self.fallback_urls)
    base_url,
    fallback_urls,
    \* ---- the _send_request call in progress
    spc,                 \* "idle" | "send" | "returned" | "raised"
    method,              \* the call's HTTP method
    endpoint,            \* the call's endpoint path
    signed,              \* the call's signed flag
    params,              \* the params dict, a sequence of <<key, value>> in insertion order
    retry_count,
    max_endpoint_attempts,
    endpoint_attempt,
    attempt,
    url,                 \* the base URL the current retry loop sends to
    result,              \* what the call returned or raised
    \* ---- observation of the call
    url0,                \* base_url when the call began
    fb0,                 \* fallback_urls when the call began
    nAttempts,           \* HTTP attempts performed by the call
    lastReq,             \* the last HTTP request sent
    last,                \* the last failed attempt and the sleep that followed it
    \* ---- BinanceClient: the response cache (self.cache) and the clock
    cache,               \* key -> entry {data, expiry}
    now,                 \* datetime.now(), in seconds
    \* ---- observation of _store_in_cache and _get_from_cache
    stored,              \* key -> the last _store_in_cache(key, ...) call
    got,                 \* the _get_from_cache call just made
    \* ---- observation of the cached reads
    reader,              \* the cached read this client is used for
    call,                \* the cached read just made
    populated,           \* key -> the read that stored the entry, and what it returned
    \* ---- threads calling get_current_price on one shared client
    t_pc,                \* thread -> the line it is about to run
    t_cache_key,         \* thread -> its local cache_key
    t_cache_entry,       \* thread -> its local cache_entry
    t_price,             \* thread -> its local price
    t_outcome,           \* thread -> how its call ended
    \* ---- TradingBot: one per-symbol bot and its notifier
    telegram_enabled,    \* TelegramNotifier.enabled: token and chat id are configured
    notify_signals,      \* config.NOTIFY_SIGNALS
    notify_entries,      \* config.NOTIFY_ENTRIES
    hedge_mode,          \* config.HEDGE_MODE, which is also the account's position mode
    allow_both,          \* config.ALLOW_BOTH_POSITIONS
    auto_hedge,          \* config.AUTO_HEDGE
    b_pc,                \* where check_and_enter_position stands
    signal,              \* its local signal
    should_hedge,        \* its local should_hedge
    submitted,           \* the orders the cycle has submitted, with their outcome
    b_hedge_side,        \* its local hedge_side, "" for None
    b_pnl_info,          \* its local pnl_info
    b_quantity,          \* its local quantity
    \* ---- the exchange, as far as the bot's symbol goes
    risk_entries,        \* the position-risk entries of the symbol
    market_price,        \* the market price of the symbol
    fills,               \* market orders filled so far
    \* ---- TradingBot.run and the bot's daily tracking
    r_pc,                \* where run() stands
    is_running,          \* self.is_running
    is_trading_allowed,  \* self.is_trading_allowed
    start_of_day,        \* self.start_of_day, in days
    today,               \* the UTC day of the clock
    reported,            \* the start_of_day for which check_daily_pnl last returned False
    \* ---- BotManager, its monitor thread and main's loop
    m_use_high_volume,   \* config.USE_HIGH_VOLUME_PAIRS
    m_symbols,           \* self.symbols
    m_closed,            \* self.closed_symbols
    m_bots,              \* self.bots: the unit of a symbol, 0 for none
    m_threads,           \* self.threads: the slots of the dict
    m_units,             \* every TradingBot started so far, with its thread
    m_main_pc,           \* where the main thread stands
    m_main_ret,          \* where update_trading_pairs returns to
    m_todo,              \* what is left of the list the main thread walks
    m_new_symbols,       \* new_symbols of update_trading_pairs
    m_updates,           \* periodic updates begun so far
    m_updated,           \* the last update_trading_pairs ran to its end
    m_attempted,         \* the symbols start_bot was called for
    mon_pc,              \* where the monitor thread stands
    mon_i,               \* the dict iterator: the slot it gave out last
    mon_used,            \* the dict iterator: the size of the dict when it was made
    mon_len,             \* the dict iterator: the entries it still expects
    sb_symbol,           \* start_bot under way in a thread: its symbol
    sb_pc,               \* start_bot under way in a thread: its position
    \* ---- GridTradingBot and the exchange's side of its orders
    g_pc,                     \* where GridTradingBot.run stands
    g_price,                  \* current_price of the cycle
    last_buy_price,           \* self.last_buy_price
    lowest_price,             \* self.lowest_price
    current_grid_buy_index,   \* self.current_grid_buy_index
    current_grid_sell_index,  \* self.current_grid_sell_index
    active_buy_order_id,      \* self.active_buy_order_id, 0 for None
    active_sell_order_id,     \* self.active_sell_order_id, 0 for None
    g_orders,                 \* the orders placed, by order id
    g_trades,                 \* the symbol's trades
    g_balance,                \* the wallet balance of the coin
    g_log,                    \* the cycle's cancellations and placements, in order
    g_stale,                  \* the buy step found its order open and the price 1 % under its placement
    g_seen,                   \* the trades check_order_executions has read and not yet handled
    \* ---- observation of PositionManager's functions
    pm_call              \* the call just made: its arguments and what it returned

gwVars == <<base_url, fallback_urls, spc, method, endpoint, signed, params, retry_count,
            max_endpoint_attempts, endpoint_attempt, attempt, url, result,
            url0, fb0, nAttempts, lastReq, last>>

cacheVars == <<cache, now>>
rawVars == <<stored, got>>

readVars == <<reader, call, populated>>

threadVars == <<t_pc, t_cache_key, t_cache_entry, t_price, t_outcome>>

configVars == <<telegram_enabled, notify_signals, notify_entries, hedge_mode, allow_both,
                auto_hedge>>
localVars == <<signal, should_hedge, b_hedge_side, b_pnl_info, b_quantity>>
exchangeVars == <<risk_entries, market_price, fills>>
botVars == <<b_pc, submitted, localVars, exchangeVars>>
pmVars == <<pm_call>>
runVars == <<r_pc, is_running, is_trading_allowed, start_of_day, today, reported>>
mainVars == <<m_main_pc, m_main_ret, m_todo, m_new_symbols, m_updates, m_updated>>
monVars == <<mon_pc, mon_i, mon_used, mon_len>>
startVars == <<sb_symbol, sb_pc, m_attempted>>
mgrVars == <<m_use_high_volume, m_symbols, m_closed, m_bots, m_threads, m_units,
             mainVars, monVars, startVars>>
gridState == <<last_buy_price, lowest_price, current_grid_buy_index, current_grid_sell_index,
               active_buy_order_id, active_sell_order_id>>
exchangeGrid == <<g_orders, g_trades, g_balance>>
gridVars == <<g_pc, g_price, gridState, exchangeGrid, g_seen, g_log, g_stale>>

vars == <<gwVars, cacheVars, rawVars, readVars, threadVars, configVars, botVars, pmVars, runVars, mgrVars, gridVars>>

\* each part's steps leave the other parts alone
GatewayFrame == UNCHANGED <<cacheVars, rawVars, readVars, threadVars, configVars, botVars, pmVars, runVars, mgrVars, gridVars>>
RawFrame == UNCHANGED <<gwVars, readVars, threadVars, configVars, botVars, pmVars, runVars, mgrVars, gridVars>>
ReadFrame == UNCHANGED <<gwVars, rawVars, threadVars, configVars, botVars, pmVars, runVars, mgrVars, gridVars>>
ThreadFrame == UNCHANGED <<gwVars, rawVars, readVars, configVars, botVars, pmVars, runVars, mgrVars, gridVars>>
BotFrame == UNCHANGED <<gwVars, cacheVars, rawVars, readVars, threadVars, configVars, pmVars, runVars, mgrVars, gridVars>>
RunFrame == UNCHANGED <<gwVars, cacheVars, rawVars, readVars, threadVars, configVars, botVars, pmVars, mgrVars, gridVars>>
ManagerFrame == UNCHANGED <<gwVars, cacheVars, rawVars, readVars, threadVars, configVars, botVars, pmVars, runVars, gridVars>>
GridFrame == UNCHANGED <<gwVars, cacheVars, rawVars, readVars, threadVars, configVars, botVars, pmVars, runVars, mgrVars>>
PmFrame == UNCHANGED <<gwVars, cacheVars, rawVars, readVars, threadVars, configVars, botVars, runVars, mgrVars, gridVars>>

(***************************************************************************)
(* Values                                                                  *)
(***************************************************************************)
PrimaryUrl == "https://fapi.binance.com"
FallbackUrl(i) == "https://fallback-" \o ToString(i)
\* the lists config.FALLBACK_BASE_URLS can hold
FallbackLists == {[i \in 1..n |-> FallbackUrl(i)] : n \in 0..MaxFallbacks}

ApiKey == "api_key"
ApiSecret == "api_secret"

RECURSIVE Pow2(_)
Pow2(n) == IF n <= 0 THEN 1 ELSE 2 * Pow2(n - 1)

Max(a, b) == IF a >= b THEN a ELSE b

\* the operations of BinanceClient that reach _send_request, with the
\* params dict each builds and the signed flag it passes
Operations ==
    { [name |-> "get_exchange_info", method |-> "GET", endpoint |-> "/fapi/v1/exchangeInfo",
       params |-> <<>>, signed |-> FALSE],
      [name |-> "get_current_price", method |-> "GET", endpoint |-> "/fapi/v1/ticker/price",
       params |-> <<<<"symbol", "BTCUSDT">>>>, signed |-> FALSE],
      [name |-> "get_klines", method |-> "GET", endpoint |-> "/fapi/v1/klines",
       params |-> <<<<"symbol", "BTCUSDT">>, <<"interval", "1m">>, <<"limit", "100">>>>,
       signed |-> FALSE],
      [name |-> "get_account_info", method |-> "GET", endpoint |-> "/fapi/v2/account",
       params |-> <<>>, signed |-> TRUE],
      [name |-> "set_position_mode", method |-> "POST", endpoint |-> "/fapi/v1/positionSide/dual",
       params |-> <<<<"dualSidePosition", "true">>>>, signed |-> TRUE],
      [name |-> "set_leverage", method |-> "POST", endpoint |-> "/fapi/v1/leverage",
       params |-> <<<<"symbol", "BTCUSDT">>, <<"leverage", "10">>>>, signed |-> TRUE],
      [name |-> "place_market_order", method |-> "POST", endpoint |-> "/fapi/v1/order",
       params |-> <<<<"symbol", "BTCUSDT">>, <<"side", "BUY">>, <<"type", "MARKET">>,
                    <<"quantity", "1">>>>,
       signed |-> TRUE],
      [name |-> "get_recent_trades", method |-> "GET", endpoint |-> "/fapi/v1/userTrades",
       params |-> <<<<"symbol", "BTCUSDT">>, <<"limit", "100">>>>, signed |-> TRUE],
      [name |-> "get_income_history", method |-> "GET", endpoint |-> "/fapi/v1/income",
       params |-> <<<<"limit", "1000">>>>, signed |-> TRUE] }

(***************************************************************************)
(* A dict as a sequence of <<key, value>> pairs in insertion order         *)
(***************************************************************************)
HasKey(d, k) == \E i \in 1..Len(d) : d[i][1] = k

DictGet(d, k) == d[CHOOSE i \in 1..Len(d) : d[i][1] = k][2]

\* d[k] = v : replaces the value of an existing key in place, else appends
DictSet(d, k, v) ==
    IF HasKey(d, k)
    THEN [i \in 1..Len(d) |-> IF d[i][1] = k THEN <<k, v>> ELSE d[i]]
    ELSE Append(d, <<k, v>>)

\* the dict without key k
DictRemove(d, k) == SelectSeq(d, LAMBDA kv : kv[1] # k)

\* urllib.parse.urlencode: "k1=v1&k2=v2&..." in the dict's order
RECURSIVE urlencode(_)
urlencode(d) ==
    IF d = <<>> THEN ""
    ELSE d[1][1] \o "=" \o d[1][2]
         \o (IF Len(d) > 1 THEN "&" ELSE "") \o urlencode(Tail(d))

\* hmac.new(secret, query_string, sha256).hexdigest(): determined by the secret
\* and the message, and different for different messages
generate_signature(query_string) == "hmac(" \o ApiSecret \o "," \o query_string \o ")"

\* a signing that computes the signature before recvWindow is added
SignParamsEarly(p, ts, rw) ==
    LET p1 == DictSet(p, "timestamp", ToString(ts))
        query_string == urlencode(p1)
        p2 == DictSet(p1, "recvWindow", ToString(rw))
    IN  DictSet(p2, "signature", generate_signature(query_string))

\* lines 235-240: what _send_request makes of params for a signed call
SignParams(p, ts, rw) ==
    LET p1 == DictSet(p, "timestamp", ToString(ts))
        p2 == DictSet(p1, "recvWindow", ToString(rw))
        query_string == urlencode(p2)
    IN  DictSet(p2, "signature", generate_signature(query_string))

(***************************************************************************)
(* HTTP responses                                                          *)
(***************************************************************************)
\* the Retry-After header of a 429 response: absent (or empty), a number of
\* seconds (0, one below every backoff, one at or above the first backoffs), or
\* text int() cannot parse (an HTTP date)
RetryAfterHeaders ==
    {[present |-> FALSE, numeric |-> FALSE, value |-> 0],
     [present |-> TRUE, numeric |-> FALSE, value |-> 0]}
    \cup {[present |-> TRUE, numeric |-> TRUE, value |-> r] : r \in {0, 1, MaxRetryAfter}}

NoHeader == [present |-> FALSE, numeric |-> FALSE, value |-> 0]

\* the body of a client/business error response: the exchange's {code, msg}
\* JSON, or text that is not JSON
ErrorBodies ==
    {[json |-> TRUE, code |-> "-4028", msg |-> "Leverage 200 is not valid", text |-> "{-4028}"],
     [json |-> TRUE, code |-> "-4141", msg |-> "Symbol is closed", text |-> "{-4141}"],
     [json |-> FALSE, code |-> "", msg |-> "", text |-> "<html>"]}

NoBody == [json |-> FALSE, code |-> "", msg |-> "", text |-> ""]

NoResult == [type |-> "none", value |-> ""]
Returned(v) == [type |-> "ok", value |-> v]
Raised(m) == [type |-> "error", value |-> m]

NoRequest == [method |-> "", url |-> "", endpoint |-> "", headers |-> <<>>, params |-> <<>>]
NoFailure == [kind |-> "none", header |-> NoHeader, body |-> NoBody, n |-> 0,
              attempt |-> 0, endpoint_attempt |-> 0, slept |-> FALSE, wait |-> 0]

\* no _send_request call in progress
GatewayIdle ==
    /\ spc = "idle"
    /\ method = ""
    /\ endpoint = ""
    /\ signed = FALSE
    /\ params = <<>>
    /\ retry_count = 0
    /\ max_endpoint_attempts = 0
    /\ endpoint_attempt = 0
    /\ attempt = 0
    /\ url = ""
    /\ result = NoResult
    /\ url0 = ""
    /\ fb0 = <<>>
    /\ nAttempts = 0
    /\ lastReq = NoRequest
    /\ last = NoFailure

(***************************************************************************)
(* The response cache: BinanceClient._store_in_cache and _get_from_cache   *)
(***************************************************************************)
\* what the cached reads return and the cache holds: a float (a price), a
\* dict (an account snapshot), a DataFrame (candles), a list of symbol names,
\* a list of ticker dicts, or None
NoneV == [type |-> "None", num |-> 0, names |-> <<>>, rows |-> <<>>]
FloatV(x) == [type |-> "float", num |-> x, names |-> <<>>, rows |-> <<>>]
DictV(id) == [type |-> "dict", num |-> id, names |-> <<>>, rows |-> <<>>]
FrameV(id) == [type |-> "DataFrame", num |-> id, names |-> <<>>, rows |-> <<>>]
NamesV(l) == [type |-> "list[str]", num |-> 0, names |-> l, rows |-> <<>>]
RowsV(l) == [type |-> "list[dict]", num |-> 0, names |-> <<>>, rows |-> l]

Symbols == {"BTCUSDT", "ETHUSDT"}
MIN_VOLUME_USDT == 1000000
KLINE_LIMIT == 100
\* the candle intervals in the order of get_klines' fallback chain
Intervals ==
    << [name |-> "1m", unit |-> "m", count |-> 1],
       [name |-> "3m", unit |-> "m", count |-> 3],
       [name |-> "5m", unit |-> "m", count |-> 5],
       [name |-> "15m", unit |-> "m", count |-> 15],
       [name |-> "30m", unit |-> "m", count |-> 30],
       [name |-> "1h", unit |-> "h", count |-> 1],
       [name |-> "2h", unit |-> "h", count |-> 2],
       [name |-> "4h", unit |-> "h", count |-> 4],
       [name |-> "6h", unit |-> "h", count |-> 6],
       [name |-> "8h", unit |-> "h", count |-> 8],
       [name |-> "12h", unit |-> "h", count |-> 12],
       [name |-> "1d", unit |-> "d", count |-> 1] >>
\* get_klines' own retries reach the first four from "1m"
KlineIntervals == [i \in 1..4 |-> Intervals[i].name]

PriceKey(symbol) == "price_" \o symbol
KlinesKey(symbol, interval, limit) ==
    "klines_" \o symbol \o "_" \o interval \o "_" \o ToString(limit)
AccountKey == "account_info"
\* min_volume is a float: str() writes it with a trailing ".0"
VolumeKey(min_volume) == "high_volume_pairs_" \o ToString(min_volume) \o ".0"

CacheKeys ==
    {PriceKey(sy) : sy \in Symbols}
    \cup {KlinesKey("BTCUSDT", KlineIntervals[i], KLINE_LIMIT) : i \in 1..Len(KlineIntervals)}
    \cup {AccountKey, VolumeKey(MIN_VOLUME_USDT)}

Absent == [present |-> FALSE, data |-> NoneV, expiry |-> 0]

\* a lookup that still hits at the instant of expiry
get_from_cache_late(c, key, t) ==
    IF c[key].present
    THEN IF t <= c[key].expiry
         THEN [data |-> c[key].data, cache |-> c]
         ELSE [data |-> NoneV, cache |-> [c EXCEPT ![key] = Absent]]
    ELSE [data |-> NoneV, cache |-> c]

\* _store_in_cache at time t: the cache it leaves
store_in_cache(c, key, data, ttl_seconds, t) ==
    [c EXCEPT ![key] = [present |-> TRUE, data |-> data, expiry |-> t + ttl_seconds]]

\* _get_from_cache at time t: what it returns and the cache it leaves
get_from_cache(c, key, t) ==
    IF c[key].present
    THEN IF t < c[key].expiry
         THEN [data |-> c[key].data, cache |-> c]
         ELSE [data |-> NoneV, cache |-> [c EXCEPT ![key] = Absent]]
    ELSE [data |-> NoneV, cache |-> c]

CacheEmpty ==
    /\ cache = [k \in CacheKeys |-> Absent]
    /\ now = 0

(***************************************************************************)
(* The two cache functions called with any key, payload and ttl            *)
(***************************************************************************)
RawKeys == {PriceKey(sy) : sy \in Symbols}
RawPayloads == {FloatV(1), FloatV(2)}

NoStore == [valid |-> FALSE, data |-> NoneV, at |-> 0, ttl |-> 0]
NoGet == [done |-> FALSE, key |-> "", data |-> NoneV]

RawIdle ==
    /\ stored = [k \in CacheKeys |-> NoStore]
    /\ got = NoGet

StoreInCache(key, data, ttl) ==
    /\ cache' = store_in_cache(cache, key, data, ttl, now)
    /\ stored' = [stored EXCEPT ![key] = [valid |-> TRUE, data |-> data, at |-> now, ttl |-> ttl]]
    /\ got' = NoGet
    /\ UNCHANGED now
    /\ RawFrame

GetFromCache(key) ==
    LET r == get_from_cache(cache, key, now)
    IN  /\ cache' = r.cache
        /\ got' = [done |-> TRUE, key |-> key, data |-> r.data]
        /\ UNCHANGED <<now, stored>>
        /\ RawFrame

\* a second passes
TickCache ==
    /\ now < MaxTime
    /\ now' = now + 1
    /\ got' = NoGet
    /\ UNCHANGED <<cache, stored>>
    /\ RawFrame

(***************************************************************************)
(* The cached reads: get_current_price, get_account_info, get_klines and   *)
(* get_high_volume_pairs.  _send_request is taken by its outcome: it       *)
(* returns the response body or raises.                                    *)
(***************************************************************************)
\* a cached read's outcome: what it returned or that it raised, the cache it
\* left, the HTTP requests it made and the keys it stored
ReadResult(raised, ret, c, http, filled) ==
    [raised |-> raised, ret |-> ret, cache |-> c, http |-> http, filled |-> filled]

\* _send_request's outcomes for the endpoints read
Failed == [ok |-> FALSE, body |-> NoneV]
Ok(body) == [ok |-> TRUE, body |-> body]
PriceResponses == {Failed, Ok(FloatV(100)), Ok(FloatV(101))}
AccountResponses == {Failed, Ok(DictV(1)), Ok(DictV(2))}
KlinesResponses == {Failed, Ok(FrameV(1)), Ok(FrameV(2))}
Ticker(base, quote, quoteVolume) == [base |-> base, quote |-> quote, quoteVolume |-> quoteVolume]
TickerResponses ==
    { Failed,
      Ok(RowsV(<<Ticker("BTC", "USDT", 3000000), Ticker("ETH", "USDT", 5000000),
                 Ticker("ETH", "BTC", 9000000)>>)),
      Ok(RowsV(<<Ticker("ETH", "USDT", 5000000), Ticker("DOGE", "USDT", 900000)>>)),
      Ok(RowsV(<<Ticker("ETH", "BTC", 9000000)>>)) }

\* Python's truth value of a payload: None and the empty list are false
Truthy(v) ==
    /\ v # NoneV
    /\ v.type = "list[str]" => v.names # <<>>
    /\ v.type = "list[dict]" => v.rows # <<>>

\* list.sort(key=quoteVolume, reverse=True): stable, largest volume first
RECURSIVE SortByVolume(_)
SortByVolume(l) ==
    IF l = <<>> THEN <<>>
    ELSE LET rest == SortByVolume(SubSeq(l, 1, Len(l) - 1))
             x == l[Len(l)]
             ahead == SelectSeq(rest, LAMBDA y : y.quoteVolume >= x.quoteVolume)
             behind == SelectSeq(rest, LAMBDA y : y.quoteVolume < x.quoteVolume)
         IN  ahead \o <<x>> \o behind

Limit(l, n) == SubSeq(l, 1, IF Len(l) < n THEN Len(l) ELSE n)
SymbolsOf(l) == [i \in 1..Len(l) |-> l[i].base \o l[i].quote]

\* get_high_volume_pairs: the list stored is the list of USDT tickers, which
\* the sort that follows the store reorders in place; the list returned is
\* the names of those above min_volume
get_high_volume_pairs(c, t, min_volume, limit, out) ==
    LET cache_key == VolumeKey(min_volume)
        look == get_from_cache(c, cache_key, t)
    IN  IF Truthy(look.data)
        THEN ReadResult(FALSE, look.data, look.cache, 0, {})
        ELSE IF ~out.ok
        THEN ReadResult(TRUE, NoneV, look.cache, 1, {})
        ELSE LET usdt_pairs == SelectSeq(out.body.rows, LAMBDA tk : tk.quote = "USDT")
                 sorted == SortByVolume(usdt_pairs)
                 high_volume_pairs == Limit(SelectSeq(sorted, LAMBDA tk : tk.quoteVolume >= min_volume), limit)
                 symbols == SymbolsOf(high_volume_pairs)
             IN  ReadResult(FALSE, NamesV(symbols),
                            store_in_cache(look.cache, cache_key, RowsV(sorted), 30 * 60, t),
                            1, {cache_key})

get_current_price(c, t, symbol, out) ==
    LET cache_key == PriceKey(symbol)
        look == get_from_cache(c, cache_key, t)
    IN  IF look.data # NoneV
        THEN ReadResult(FALSE, look.data, look.cache, 0, {})
        ELSE IF ~out.ok
        THEN ReadResult(TRUE, NoneV, look.cache, 1, {})
        ELSE ReadResult(FALSE, out.body, store_in_cache(look.cache, cache_key, out.body, 5, t),
                        1, {cache_key})

get_account_info(c, t, out) ==
    LET cache_key == AccountKey
        look == get_from_cache(c, cache_key, t)
    IN  IF look.data # NoneV
        THEN ReadResult(FALSE, look.data, look.cache, 0, {})
        ELSE IF ~out.ok
        THEN ReadResult(TRUE, NoneV, look.cache, 1, {})
        ELSE ReadResult(FALSE, out.body, store_in_cache(look.cache, cache_key, out.body, 10, t),
                        1, {cache_key})

IntervalIndex(interval) == CHOOSE i \in 1..Len(Intervals) : Intervals[i].name = interval
\* get_klines' cache_ttl
KlinesTtl(interval) ==
    LET iv == Intervals[IntervalIndex(interval)]
    IN  IF iv.unit = "m" THEN iv.count * 60
        ELSE IF iv.unit = "h" THEN iv.count * 3600
        ELSE 3600
\* get_klines' fallback interval, "" when there is none
FallbackInterval(interval) ==
    LET i == IntervalIndex(interval)
    IN  IF i < Len(Intervals) THEN Intervals[i + 1].name ELSE ""

\* get_klines; outs are the outcomes of the _send_request calls it makes, in order
RECURSIVE get_klines(_, _, _, _, _, _, _)
get_klines(c, t, symbol, interval, limit, max_retries, outs) ==
    LET cache_key == KlinesKey(symbol, interval, limit)
        look == get_from_cache(c, cache_key, t)
        out == Head(outs)
    IN  IF look.data # NoneV
        THEN ReadResult(FALSE, look.data, look.cache, 0, {})
        ELSE IF out.ok
        THEN ReadResult(FALSE, out.body,
                        store_in_cache(look.cache, cache_key, out.body, KlinesTtl(interval), t),
                        1, {cache_key})
        ELSE LET try1 == limit > 100 /\ max_retries > 0
                 r1 == get_klines(look.cache, t, symbol, interval, 100, max_retries - 1, Tail(outs))
                 c1 == IF try1 THEN r1.cache ELSE look.cache
                 n1 == IF try1 THEN 1 + r1.http ELSE 1
                 fallback_interval == FallbackInterval(interval)
                 try2 == max_retries > 0 /\ fallback_interval # ""
                 r2 == get_klines(c1, t, symbol, fallback_interval, limit, max_retries - 1,
                                  SubSeq(outs, n1 + 1, Len(outs)))
             IN  IF try1 /\ ~r1.raised
                 THEN ReadResult(FALSE, r1.ret, r1.cache, n1, r1.filled)
                 ELSE IF try2 /\ ~r2.raised
                 THEN ReadResult(FALSE, r2.ret, r2.cache, n1 + r2.http, r2.filled)
                 ELSE ReadResult(TRUE, NoneV, IF try2 THEN r2.cache ELSE c1,
                                 IF try2 THEN n1 + r2.http ELSE n1, {})

Readers == {"get_current_price", "get_account_info", "get_klines", "get_high_volume_pairs"}

NoEntry == [valid |-> FALSE, ret |-> NoneV, expiry |-> 0]
NoCall == [done |-> FALSE, op |-> "", key |-> "", http |-> 0, raised |-> FALSE,
           ret |-> NoneV, prior |-> NoEntry]

ReadIdle ==
    /\ call = NoCall
    /\ populated = [k \in CacheKeys |-> NoEntry]

\* a cached read called with the cache key cache_key ends with outcome r
Read(op, cache_key, r) ==
    /\ cache' = r.cache
    /\ call' = [done |-> TRUE, op |-> op, key |-> cache_key, http |-> r.http,
                raised |-> r.raised, ret |-> r.ret, prior |-> populated[cache_key]]
    /\ populated' = [k \in CacheKeys |->
                        IF k \in r.filled
                        THEN [valid |-> TRUE, ret |-> r.ret, expiry |-> r.cache[k].expiry]
                        ELSE populated[k]]
    /\ UNCHANGED <<now, reader>>
    /\ ReadFrame

GetCurrentPrice(symbol, out) ==
    /\ reader = "get_current_price"
    /\ Read("get_current_price", PriceKey(symbol), get_current_price(cache, now, symbol, out))

GetAccountInfo(out) ==
    /\ reader = "get_account_info"
    /\ Read("get_account_info", AccountKey, get_account_info(cache, now, out))

GetKlines(outs) ==
    /\ reader = "get_klines"
    /\ Read("get_klines", KlinesKey("BTCUSDT", "1m", KLINE_LIMIT),
            get_klines(cache, now, "BTCUSDT", "1m", KLINE_LIMIT, 3, outs))

GetHighVolumePairs(out) ==
    /\ reader = "get_high_volume_pairs"
    /\ Read("get_high_volume_pairs", VolumeKey(MIN_VOLUME_USDT),
            get_high_volume_pairs(cache, now, MIN_VOLUME_USDT, 20, out))

\* TickSeconds seconds pass
TickReads ==
    /\ now + TickSeconds <= MaxNow
    /\ now' = now + TickSeconds
    /\ call' = NoCall
    /\ UNCHANGED <<cache, reader, populated>>
    /\ ReadFrame

(***************************************************************************)
(* Two threads calling get_current_price on the one client they share      *)
(* (BotManager.client: BotManager.monitor runs in a thread of its own and  *)
(* the main thread runs update_trading_pairs; both reach start_bot).  The  *)
(* cache has no lock, so the threads interleave between the lines of       *)
(* _get_from_cache and _store_in_cache.                                    *)
(***************************************************************************)
Threads == {"monitor", "main"}

\* the ticker a symbol's price request is answered with
PricesOf(symbol) == IF symbol = "BTCUSDT" THEN {100, 101} ELSE {200, 201}

NoOutcome == [kind |-> "none", ret |-> NoneV, at |-> 0, expiry |-> 0]

ThreadsIdle ==
    /\ t_pc = [t \in Threads |-> "idle"]
    /\ t_cache_key = [t \in Threads |-> ""]
    /\ t_cache_entry = [t \in Threads |-> Absent]
    /\ t_price = [t \in Threads |-> NoneV]
    /\ t_outcome = [t \in Threads |-> NoOutcome]

\* thread t's call ends
Ends(t, kind, ret, expiry) ==
    /\ t_pc' = [t_pc EXCEPT ![t] = "done"]
    /\ t_outcome' = [t_outcome EXCEPT ![t] = [kind |-> kind, ret |-> ret, at |-> now, expiry |-> expiry]]

\* get_currenprice(symbol) is called
CallPrice(t, symbol) ==
    /\ t_pc[t] = "idle"
    /\ t_pc' = [t_pc EXCEPT ![t] = "in"]
    /\ t_cache_key' = [t_cache_key EXCEPT ![t] = PriceKey(symbol)]
    /\ UNCHANGED <<cache, now, t_cache_entry, t_price, t_outcome>>
    /\ ThreadFrame

\* if key in self.cache:
TestIn(t) ==
    /\ t_pc[t] = "in"
    /\ t_pc' = [t_pc EXCEPT ![t] = IF cache[t_cache_key[t]].present THEN "entry" ELSE "request"]
    /\ UNCHANGED <<cache, now, t_cache_key, t_cache_entry, t_price, t_outcome>>
    /\ ThreadFrame

\* cache_entry = self.cache[key]
ReadEntry(t) ==
    /\ t_pc[t] = "entry"
    /\ IF cache[t_cache_key[t]].present
       THEN /\ t_cache_entry' = [t_cache_entry EXCEPT ![t] = cache[t_cache_key[t]]]
            /\ t_pc' = [t_pc EXCEPT ![t] = "expiry"]
            /\ UNCHANGED t_outcome
       ELSE /\ Ends(t, "KeyError", NoneV, 0)
            /\ UNCHANGED t_cache_entry
    /\ UNCHANGED <<cache, now, t_cache_key, t_price>>
    /\ ThreadFrame

\* if datetime.now() < cache_entry['expiry']: return cache_entry['data']
TestExpiry(t) ==
    /\ t_pc[t] = "expiry"
    /\ IF now < t_cache_entry[t].expiry
       THEN Ends(t, "hit", t_cache_entry[t].data, t_cache_entry[t].expiry)
       ELSE /\ t_pc' = [t_pc EXCEPT ![t] = "del"]
            /\ UNCHANGED t_outcome
    /\ UNCHANGED <<cache, now, t_cache_key, t_cache_entry, t_price>>
    /\ ThreadFrame

\* del self.cache[key]
Delete(t) ==
    /\ t_pc[t] = "del"
    /\ IF cache[t_cache_key[t]].present
       THEN /\ cache' = [cache EXCEPT ![t_cache_key[t]] = Absent]
            /\ t_pc' = [t_pc EXCEPT ![t] = "request"]
            /\ UNCHANGED t_outcome
       ELSE /\ Ends(t, "KeyError", NoneV, 0)
            /\ UNCHANGED cache
    /\ UNCHANGED <<now, t_cache_key, t_cache_entry, t_price>>
    /\ ThreadFrame

\* ticker = self._send_request(...); price = float(ticker['price'])
RequestPrice(t, out) ==
    /\ t_pc[t] = "request"
    /\ out.ok => \E sy \in Symbols : t_cache_key[t] = PriceKey(sy) /\ out.body.num \in PricesOf(sy)
    /\ IF out.ok
       THEN /\ t_price' = [t_price EXCEPT ![t] = out.body]
            /\ t_pc' = [t_pc EXCEPT ![t] = "store"]
            /\ UNCHANGED t_outcome
       ELSE /\ Ends(t, "request failed", NoneV, 0)
            /\ UNCHANGED t_price
    /\ UNCHANGED <<cache, now, t_cache_key, t_cache_entry>>
    /\ ThreadFrame

\* self._store_in_cache(cache_key, price, 5); return price
StorePrice(t) ==
    /\ t_pc[t] = "store"
    /\ cache' = store_in_cache(cache, t_cache_key[t], t_price[t], 5, now)
    /\ Ends(t, "fetched", t_price[t], now + 5)
    /\ UNCHANGED <<now, t_cache_key, t_cache_entry, t_price>>
    /\ ThreadFrame

\* the caller takes the result
Returns(t) ==
    /\ t_pc[t] = "done"
    /\ t_pc' = [t_pc EXCEPT ![t] = "idle"]
    /\ t_cache_key' = [t_cache_key EXCEPT ![t] = ""]
    /\ t_cache_entry' = [t_cache_entry EXCEPT ![t] = Absent]
    /\ t_price' = [t_price EXCEPT ![t] = NoneV]
    /\ t_outcome' = [t_outcome EXCEPT ![t] = NoOutcome]
    /\ UNCHANGED <<cache, now>>
    /\ ThreadFrame

\* TickSeconds seconds pass
TickThreads ==
    /\ now + TickSeconds <= MaxNow
    /\ now' = now + TickSeconds
    /\ UNCHANGED <<cache, threadVars>>
    /\ ThreadFrame

\* min of two integers
Min(a, b) == IF a <= b THEN a ELSE b

(***************************************************************************)
(* PositionManager: position size, exit prices, hedging                    *)
(***************************************************************************)
\* Python floats are modelled as exact fractions [n, d] in lowest terms with
\* d > 0: the binary rounding error of float arithmetic is left out.  Each
\* operation binds its operands once (x \in {e}) before it computes with them.
Only(S) == CHOOSE r \in S : TRUE
RECURSIVE Gcd(_, _)
Gcd(a, b) == IF b = 0 THEN a ELSE Only({Gcd(b, m) : m \in {a % b}})
Abs(x) == IF x < 0 THEN -x ELSE x
Lowest(n, d, g, s) == [n |-> (s * n) \div g, d |-> (s * d) \div g]
Frac(n, d) ==
    Only({Only({Lowest(a, b, g, IF b < 0 THEN -1 ELSE 1) : g \in {Gcd(Abs(a), Abs(b))}})
            : a \in {n}, b \in {d}})
Num(i) == [n |-> i, d |-> 1]
Add(x, y) == Only({Frac(a.n * b.d + b.n * a.d, a.d * b.d) : a \in {x}, b \in {y}})
Sub(x, y) == Only({Frac(a.n * b.d - b.n * a.d, a.d * b.d) : a \in {x}, b \in {y}})
Mul(x, y) == Only({Frac(a.n * b.n, a.d * b.d) : a \in {x}, b \in {y}})
Div(x, y) == Only({Frac(a.n * b.d, a.d * b.n) : a \in {x}, b \in {y}})
Lt(x, y) == \E a \in {x}, b \in {y} : a.n * b.d < b.n * a.d
Le(x, y) == \E a \in {x}, b \in {y} : a.n * b.d <= b.n * a.d
fmin(x, y) == Only({IF Le(a, b) THEN a ELSE b : a \in {x}, b \in {y}})
fmax(x, y) == Only({IF Le(b, a) THEN a ELSE b : a \in {x}, b \in {y}})
fabs(x) == Only({[n |-> Abs(a.n), d |-> a.d] : a \in {x}})
Pow10(k) == IF k = 0 THEN 1 ELSE IF k = 1 THEN 10 ELSE IF k = 2 THEN 100
            ELSE IF k = 3 THEN 1000 ELSE 10000
\* the nearest multiple of 1/p to num/den, a tie going to the even one
Nearest(num, den, p) ==
    LET fl == num \div den
        rem == num - fl * den
        up == IF 2 * rem > den THEN 1
              ELSE IF 2 * rem < den THEN 0
              ELSE fl % 2
    IN  Frac(fl + up, p)
\* round(x, ndigits)
round(x, ndigits) ==
    Only({Nearest(a.n * Pow10(ndigits), a.d, Pow10(ndigits)) : a \in {x}})

LEVERAGE == 10
POSITION_SIZE_PERCENT == 5
MAX_ACCOUNT_USAGE == 60
MIN_NOTIONAL_VALUE == 5

\* the steps with the breakpoints on the other side: 25 is already in the
\* second step
get_margin_percentage_open(leverage) ==
    IF leverage < 25 THEN 5
    ELSE IF leverage < 50 THEN 4
    ELSE IF leverage < 75 THEN 3
    ELSE IF leverage < 100 THEN 2
    ELSE 1

\* config.get_margin_percentage
get_margin_percentage(leverage) ==
    IF leverage <= 25 THEN 5
    ELSE IF leverage <= 50 THEN 4
    ELSE IF leverage <= 75 THEN 3
    ELSE IF leverage <= 100 THEN 2
    ELSE 1

\* an entry of /fapi/v2/positionRisk as get_open_positions returns it
Position(symbol, positionSide, positionAmt, entryPrice, markPrice, leverage) ==
    [symbol |-> symbol, positionSide |-> positionSide, positionAmt |-> positionAmt,
     entryPrice |-> entryPrice, markPrice |-> markPrice, leverage |-> leverage]

\* BinanceClient.round_quantity and round_price, the precision being the
\* symbol's quantityPrecision and pricePrecision of the exchange info
round_quantity(quantity, precision) == round(quantity, precision)
round_price(price, precision) == round(price, precision)

RECURSIVE get_total_position_value(_)
get_total_position_value(positions) ==
    IF positions = <<>> THEN Num(0)
    ELSE Add(Mul(fabs(Head(positions).positionAmt), Head(positions).entryPrice),
             get_total_position_value(Tail(positions)))

\* account is the account information, ok when it could be fetched
get_account_balance(account) ==
    IF account.ok THEN account.totalWalletBalance ELSE Num(0)

get_account_usage_percentage(account, positions) ==
    LET balance == get_account_balance(account)
    IN  IF Le(balance, Num(0)) THEN Num(0)
        ELSE Mul(Div(get_total_position_value(positions), balance), Num(100))

\* get_total_position_value around a get_open_positions that raised, or
\* that caught its own failure and returned []: its except returns 0.0
total_position_value_read(positions_ok, positions) ==
    IF positions_ok THEN get_total_position_value(positions) ELSE Num(0)

\* get_account_usage_percentage with what its own two reads return: the
\* account information (fetched a second time) and the open positions
usage_percentage_read(usage_account, positions_ok, positions) ==
    LET balance == get_account_balance(usage_account)
    IN  IF Le(balance, Num(0)) THEN Num(0)
        ELSE Mul(Div(total_position_value_read(positions_ok, positions), balance), Num(100))

\* calculate_position_size from the balance it read and the usage
\* get_account_usage_percentage returned; leverage 0 stands for the argument
\* left out (None)
position_size_from(total_balance, current_usage_percent, price, leverage_arg, precision) ==
    LET leverage == IF leverage_arg = 0 THEN LEVERAGE ELSE leverage_arg
        available_percent == fmax(Num(0), Sub(Num(MAX_ACCOUNT_USAGE), current_usage_percent))
        max_position_percent == fmin(Num(POSITION_SIZE_PERCENT), available_percent)
        margin_percentage == Num(get_margin_percentage(leverage))
        position_size_usdt == Mul(total_balance, Div(max_position_percent, Num(100)))
        margin_amount == Mul(position_size_usdt, Div(margin_percentage, Num(100)))
        effective_position_size == Mul(margin_amount, Num(leverage))
        quantity == Div(effective_position_size, price)
        notional_value == Mul(quantity, price)
        min_quantity == Div(Num(MIN_NOTIONAL_VALUE), price)
        min_quantity_value == Mul(Div(Mul(min_quantity, price), Num(leverage)),
                                  Div(Num(100), margin_percentage))
        min_balance_needed == Div(Mul(min_quantity_value, Num(100)), max_position_percent)
    IN  IF Le(total_balance, Num(0)) THEN Num(0)
        ELSE IF Le(available_percent, Num(0)) THEN Num(0)
        ELSE IF Lt(notional_value, Num(MIN_NOTIONAL_VALUE))
             THEN IF Lt(total_balance, min_balance_needed) THEN Num(0)
                  ELSE round_quantity(min_quantity, precision)
        ELSE round_quantity(quantity, precision)

\* calculate_position_size when both reads of the account information return
\* the same and the open positions are fetched
calculate_position_size(account, positions, price, leverage_arg, precision) ==
    position_size_from(get_account_balance(account),
                       get_account_usage_percentage(account, positions),
                       price, leverage_arg, precision)

\* tp_percent is config.TAKE_PROFIT_PERCENT, precision the symbol's
\* pricePrecision (2 when the exchange info has no entry for the symbol)
calculate_take_profit_price(entry_price, position_side, tp_percent, precision) ==
    LET tp_price == IF position_side = "LONG"
                    THEN Mul(entry_price, Add(Num(1), Div(tp_percent, Num(100))))
                    ELSE Mul(entry_price, Sub(Num(1), Div(tp_percent, Num(100))))
    IN  round_price(tp_price, precision)

\* sl_percent is config.STOP_LOSS_PERCENT
calculate_stop_loss_price(entry_price, position_side, sl_percent, precision) ==
    LET sl_price == IF position_side = "LONG"
                    THEN Mul(entry_price, Sub(Num(1), Div(sl_percent, Num(100))))
                    ELSE Mul(entry_price, Add(Num(1), Div(sl_percent, Num(100))))
    IN  round_price(sl_price, precision)

MIN_PROFIT_AFTER_FEES == Frac(5, 100)
TAKER_FEE_RATE == Frac(4, 10000)

\* the take-profit price check_and_enter_position computes when the first
\* one would not be profitable after fees
adjusted_take_profit_price(current_price, sig, tp_percent, precision) ==
    LET adjusted_tp_percent ==
            Add(Add(tp_percent, MIN_PROFIT_AFTER_FEES), Mul(TAKER_FEE_RATE, Num(200)))
        tp_price == IF sig = "LONG"
                    THEN Mul(current_price, Add(Num(1), Div(adjusted_tp_percent, Num(100))))
                    ELSE Mul(current_price, Sub(Num(1), Div(adjusted_tp_percent, Num(100))))
    IN  round_price(tp_price, precision)

\* ratio is config.HEDGE_POSITION_SIZE_RATIO, current_price what
\* get_current_price returned
calculate_hedge_position_size(original_position_info, current_price, ratio, precision) ==
    LET original_position_amt == fabs(original_position_info.position_amt)
        hedge_position_size == Mul(original_position_amt, ratio)
        notional_value == Mul(hedge_position_size, current_price)
        min_quantity == Div(Num(MIN_NOTIONAL_VALUE), current_price)
    IN  IF Lt(notional_value, Num(MIN_NOTIONAL_VALUE))
        THEN IF Lt(original_position_amt, min_quantity)
             THEN round_quantity(original_position_amt, precision)
             ELSE round_quantity(min_quantity, precision)
        ELSE round_quantity(hedge_position_size, precision)

\* BinanceClient.get_open_positions(symbol): the entries of the position-risk
\* response for the symbol whose amount is not zero
get_open_positions(position_risk, symbol) ==
    SelectSeq(position_risk, LAMBDA p : p.symbol = symbol /\ p.positionAmt # Num(0))

IsLongEntry(p) ==
    p.positionSide = "LONG" \/ (p.positionSide = "BOTH" /\ Lt(Num(0), p.positionAmt))
IsShortEntry(p) ==
    p.positionSide = "SHORT" \/ (p.positionSide = "BOTH" /\ Lt(p.positionAmt, Num(0)))

\* a PnL dictionary of get_position_pnl; none marks Python's None
PositionPnl(none, position_side, entry_price, mark_price, position_amt, pnl_percent, leverage) ==
    [none |-> none, position_side |-> position_side, entry_price |-> entry_price,
     mark_price |-> mark_price, position_amt |-> position_amt,
     unrealized_pnl_percent |-> pnl_percent, leverage |-> leverage]
NonePnl == PositionPnl(TRUE, "", Num(0), Num(0), Num(0), Num(0), 0)
\* what get_position_pnl returns when the side has no position
ZeroPnl(position_side) == PositionPnl(FALSE, position_side, Num(0), Num(0), Num(0), Num(0), 0)

\* BinanceClient.get_position_pnl(symbol, position_side) for a given side: the
\* PnL of the first position on that side
get_position_pnl(position_risk, symbol, position_side) ==
    LET open == get_open_positions(position_risk, symbol)
        positions == IF position_side = "LONG" THEN SelectSeq(open, IsLongEntry)
                     ELSE SelectSeq(open, IsShortEntry)
        position == Head(positions)
        entry_price == position.entryPrice
        current_price == position.markPrice
        unrealized_pnl_percent ==
            IF IsLongEntry(position)
            THEN IF Lt(Num(0), entry_price)
                 THEN Mul(Mul(Sub(Div(current_price, entry_price), Num(1)), Num(100)),
                          Num(position.leverage))
                 ELSE Num(0)
            ELSE IF Lt(Num(0), entry_price) /\ Lt(Num(0), current_price)
                 THEN Mul(Mul(Sub(Div(entry_price, current_price), Num(1)), Num(100)),
                          Num(position.leverage))
                 ELSE Num(0)
    IN  IF positions = <<>> THEN ZeroPnl(position_side)
        ELSE PositionPnl(FALSE, position.positionSide, entry_price, current_price,
                         position.positionAmt, unrealized_pnl_percent, position.leverage)

\* BinanceClient.get_combined_position_pnl; the combined PnL figures, which no
\* decision reads, are left out
get_combined_position_pnl(position_risk, symbol) ==
    LET long_pnl == get_position_pnl(position_risk, symbol, "LONG")
        short_pnl == get_position_pnl(position_risk, symbol, "SHORT")
        has_long == Lt(Num(0), fabs(long_pnl.position_amt))
        has_short == Lt(Num(0), fabs(short_pnl.position_amt))
    IN  [none |-> FALSE,
         long_position |-> IF has_long THEN long_pnl ELSE NonePnl,
         short_position |-> IF has_short THEN short_pnl ELSE NonePnl,
         is_hedged |-> has_long /\ has_short]
NonePnlInfo ==
    [none |-> TRUE, long_position |-> NonePnl, short_position |-> NonePnl, is_hedged |-> FALSE]

HedgeDecision(should, hedge_side, pnl_info) ==
    [should_hedge |-> should, hedge_side |-> hedge_side, pnl_info |-> pnl_info]

\* the thresholds compared strictly
should_hedge_position_strict(auto, position_risk, symbol, profit_threshold, loss_threshold) ==
    LET pnl_info == get_combined_position_pnl(position_risk, symbol)
        long_position == pnl_info.long_position
        short_position == pnl_info.short_position
        crosses(pnl_percent) ==
            \/ Lt(profit_threshold, pnl_percent)
            \/ Lt(pnl_percent, Sub(Num(0), loss_threshold))
    IN  IF ~auto THEN HedgeDecision(FALSE, "", NonePnlInfo)
        ELSE IF pnl_info.is_hedged THEN HedgeDecision(FALSE, "", pnl_info)
        ELSE IF ~long_position.none /\ long_position.position_amt # Num(0)
                /\ crosses(long_position.unrealized_pnl_percent)
             THEN HedgeDecision(TRUE, "SHORT", pnl_info)
        ELSE IF ~short_position.none /\ short_position.position_amt # Num(0)
                /\ crosses(short_position.unrealized_pnl_percent)
             THEN HedgeDecision(TRUE, "LONG", pnl_info)
        ELSE HedgeDecision(FALSE, "", pnl_info)

\* PositionManager.should_hedge_position; auto is config.AUTO_HEDGE, the
\* thresholds are config.AUTO_HEDGE_PROFIT_THRESHOLD and
\* config.AUTO_HEDGE_LOSS_THRESHOLD, hedge_side "" is None
should_hedge_position(auto, position_risk, symbol, profit_threshold, loss_threshold) ==
    LET pnl_info == get_combined_position_pnl(position_risk, symbol)
        long_position == pnl_info.long_position
        short_position == pnl_info.short_position
        crosses(pnl_percent) ==
            \/ Le(profit_threshold, pnl_percent)
            \/ Le(pnl_percent, Sub(Num(0), loss_threshold))
    IN  IF ~auto THEN HedgeDecision(FALSE, "", NonePnlInfo)
        ELSE IF pnl_info.is_hedged THEN HedgeDecision(FALSE, "", pnl_info)
        ELSE IF ~long_position.none /\ long_position.position_amt # Num(0)
                /\ crosses(long_position.unrealized_pnl_percent)
             THEN HedgeDecision(TRUE, "SHORT", pnl_info)
        ELSE IF ~short_position.none /\ short_position.position_amt # Num(0)
                /\ crosses(short_position.unrealized_pnl_percent)
             THEN HedgeDecision(TRUE, "LONG", pnl_info)
        ELSE HedgeDecision(FALSE, "", pnl_info)

\* PositionManager.has_open_position
has_open_position(position_risk, symbol, position_side) ==
    \E i \in DOMAIN get_open_positions(position_risk, symbol) :
        LET position == get_open_positions(position_risk, symbol)[i]
        IN  position.positionSide = position_side /\ position.positionAmt # Num(0)

OppositeSide(position_side) == IF position_side = "LONG" THEN "SHORT" ELSE "LONG"

\* PositionManager.can_enter_position; hedge and allow are
\* config.HEDGE_MODE and config.ALLOW_BOTH_POSITIONS
can_enter_position(hedge, allow, position_risk, symbol, position_side) ==
    IF hedge /\ allow THEN TRUE
    ELSE IF has_open_position(position_risk, symbol, position_side) THEN FALSE
    ELSE IF ~hedge /\ has_open_position(position_risk, symbol, OppositeSide(position_side))
         THEN FALSE
    ELSE IF ~allow /\ has_open_position(position_risk, symbol, OppositeSide(position_side))
         THEN FALSE
    ELSE TRUE

\* the inputs the functions are evaluated on
Balances == {Num(-10), Num(0), Num(100), Num(1000), Num(10000)}
AccountInfos ==
    {[ok |-> TRUE, totalWalletBalance |-> b] : b \in Balances}
        \cup {[ok |-> FALSE, totalWalletBalance |-> Num(0)]}
OpenPositions ==
    { <<>>,
      <<Position("BTCUSDT", "LONG", Frac(1, 10), Num(57000), Num(57500), 10)>>,
      <<Position("BTCUSDT", "SHORT", Frac(-1, 10), Num(60000), Num(59000), 10)>>,
      <<Position("BTCUSDT", "LONG", Frac(1, 10), Num(60000), Num(60000), 10),
        Position("BTCUSDT", "SHORT", Frac(-1, 20), Num(40000), Num(60000), 10)>>,
      <<Position("BTCUSDT", "BOTH", Frac(-1, 10), Num(5700), Num(5700), 10)>> }
Prices == {Num(7), Num(100), Num(3500), Num(50000)}
Leverages == {0, 1, 10, 20, 25, 26, 50, 51, 75, 76, 100, 101}
QuantityPrecisions == {0, 3}

EntryPrices == {Num(50000), Num(100), Frac(1, 2), Frac(2, 25)}
TakeProfitPercents == {Frac(6, 10), Num(2)}
StopLossPercents == {Frac(3, 10), Frac(3, 2)}
PricePrecisions == {2, 4}

PositionAmounts == {Frac(1, 10), Frac(-1, 10), Num(1), Num(-3)}
HedgeRatios == {Frac(1, 2), Num(1), Num(2)}

\* position-risk responses for BTCUSDT: in hedge mode the exchange lists the
\* LONG and the SHORT entry of the symbol, in one-way mode one BOTH entry
\* whose amount carries the sign
Btc(positionSide, positionAmt, entryPrice, markPrice) ==
    Position("BTCUSDT", positionSide, positionAmt, Num(entryPrice), Num(markPrice), 10)
LongEntries ==
    { Btc("LONG", Num(0), 0, 50000),
      Btc("LONG", Frac(1, 10), 50000, 50050),
      Btc("LONG", Frac(1, 10), 50000, 50025),
      Btc("LONG", Frac(1, 10), 50000, 49500) }
ShortEntries ==
    { Btc("SHORT", Num(0), 0, 50000),
      Btc("SHORT", Frac(-1, 10), 50050, 50000),
      Btc("SHORT", Frac(-1, 10), 50000, 50010),
      Btc("SHORT", Frac(-1, 10), 50000, 62500) }
BothEntries ==
    { Btc("BOTH", Num(0), 0, 50000),
      Btc("BOTH", Frac(1, 10), 50000, 50050),
      Btc("BOTH", Frac(-1, 10), 50000, 50010),
      Btc("BOTH", Frac(-1, 10), 50000, 62500) }
PositionRisks ==
    {<<l, sh>> : l \in LongEntries, sh \in ShortEntries}
        \cup {<<b>> : b \in BothEntries} \cup {<<>>}
ProfitThresholds == {Num(1), Num(5)}
LossThresholds == {Num(1), Num(5)}

PmIdle == pm_call = [fn |-> ""]

\* the caller goes on with what the call returned
PmReturns ==
    /\ pm_call.fn # ""
    /\ pm_call' = [fn |-> ""]
    /\ PmFrame

CalculatePositionSize(account, positions, price, leverage, precision) ==
    /\ pm_call.fn = ""
    /\ pm_call' = [fn |-> "calculate_position_size", account |-> account,
                   positions |-> positions, price |-> price, leverage |-> leverage,
                   precision |-> precision,
                   quantity |-> calculate_position_size(account, positions, price,
                                                        leverage, precision)]
    /\ PmFrame

\* calculate_position_size with each of its three reads able to fail:
\* account is the first read of the account information, usage_account the
\* one get_account_usage_percentage makes, positions the positions open on
\* the exchange and positions_ok whether they could be fetched
CalculatePositionSizeReads(account, usage_account, positions_ok, positions, price, leverage, precision) ==
    /\ pm_call.fn = ""
    /\ pm_call' = [fn |-> "position size reads", account |-> account,
                   usage_account |-> usage_account, positions_ok |-> positions_ok,
                   positions |-> positions, price |-> price, leverage |-> leverage,
                   precision |-> precision,
                   quantity |-> position_size_from(
                                   get_account_balance(account),
                                   usage_percentage_read(usage_account, positions_ok, positions),
                                   price, leverage, precision)]
    /\ PmFrame

\* a call of _send_request as set_position_mode and set_leverage make it
SignedRequest(http_method, path, request_params) ==
    [method |-> http_method, path |-> path, params |-> request_params, signed |-> TRUE,
     recv_window |-> 60000]

\* what the exchange can answer to the read of the position mode
PositionModeReads ==
    {[ok |-> TRUE, dualSidePosition |-> TRUE], [ok |-> TRUE, dualSidePosition |-> FALSE],
     [ok |-> FALSE, dualSidePosition |-> FALSE]}
\* and to the POST that changes it
PositionModeReplies == {"response", "No need to change position side", "Timestamp outside recvWindow"}

\* BinanceClient.get_position_mode: default_mode is config.HEDGE_MODE
get_position_mode(mode_read, default_mode) ==
    IF mode_read.ok THEN mode_read.dualSidePosition ELSE default_mode

\* BinanceClient.set_position_mode(hedge_mode_arg): the requests it sends and
\* what it returns: "response" is the reply to the POST, "msg" the dictionary
\* {"msg": "No need to change position side"} made up by the client
set_position_mode(hedge_mode_arg, mode_read, default_mode, post_reply) ==
    LET post == SignedRequest("POST", "/fapi/v1/positionSide/dual",
                              [dualSidePosition |-> IF hedge_mode_arg THEN "true" ELSE "false"])
        get == SignedRequest("GET", "/fapi/v1/positionSide/dual", <<>>)
    IN  IF get_position_mode(mode_read, default_mode) = hedge_mode_arg
        THEN [requests |-> <<get>>, result |-> "msg"]
        ELSE [requests |-> <<get, post>>,
              result |-> IF post_reply = "response" THEN "response"
                         ELSE IF post_reply = "No need to change position side" THEN "msg"
                         ELSE "raise"]

SetPositionMode(hedge_mode_arg, mode_read, default_mode, post_reply) ==
    /\ pm_call.fn = ""
    /\ pm_call' = [fn |-> "set_position_mode", hedge_mode |-> hedge_mode_arg,
                   mode_read |-> mode_read, default_mode |-> default_mode,
                   post_reply |-> post_reply,
                   returned |-> set_position_mode(hedge_mode_arg, mode_read, default_mode,
                                                  post_reply)]
    /\ PmFrame

\* BinanceClient.get_max_leverage: brackets is what get_leverage_brackets
\* returned, the empty list when the fetch failed
get_max_leverage(brackets) ==
    IF brackets # <<>> THEN brackets[1].initialLeverage ELSE 20

\* the brackets get_leverage_brackets returns for a symbol whose highest
\* leverage is symbol_max
LeverageBrackets(brackets_ok, symbol_max) ==
    IF brackets_ok THEN <<[initialLeverage |-> symbol_max]>> ELSE <<>>

\* the exchange's answer to the request number call_number asking for
\* leverage: it refuses a leverage above valid_up_to with "Leverage ... is
\* not valid"; the request number other_at fails for another reason
leverage_reply(leverage, call_number, valid_up_to, other_at) ==
    IF call_number = other_at THEN "error"
    ELSE IF leverage > valid_up_to THEN "is not valid"
    ELSE "response"

\* set_leverage giving up after one retry
set_leverage_retrying_once(leverage, call_number, brackets_read, symbol_max, valid_up_to, other_at) ==
    LET requested(k, wanted) ==
            Min(wanted, get_max_leverage(LeverageBrackets(brackets_read[k], symbol_max)))
        first == requested(call_number, leverage)
        first_reply == leverage_reply(first, call_number, valid_up_to, other_at)
        second == requested(call_number + 1, first \div 2)
    IN  IF first_reply = "is not valid" /\ first > 1
        THEN [requests |-> <<first, second>>,
              result |-> leverage_reply(second, call_number + 1, valid_up_to, other_at)]
        ELSE [requests |-> <<first>>, result |-> first_reply]

\* BinanceClient.set_leverage(leverage): the leverages it asks the exchange
\* for, in order, and how it ends: with the "response" of the last request
\* or raising its failure. call_number counts the calls of set_leverage,
\* which calls itself; brackets_read[k] tells whether the k-th call could
\* fetch the brackets
RECURSIVE set_leverage(_, _, _, _, _, _)
set_leverage(leverage, call_number, brackets_read, symbol_max, valid_up_to, other_at) ==
    LET max_leverage ==
            get_max_leverage(LeverageBrackets(brackets_read[call_number], symbol_max))
        requested == IF leverage > max_leverage THEN max_leverage ELSE leverage
        reply == leverage_reply(requested, call_number, valid_up_to, other_at)
        new_leverage == IF requested \div 2 > 1 THEN requested \div 2 ELSE 1
    IN  IF reply = "is not valid" /\ requested > 1
        THEN Only({[requests |-> <<requested>> \o retried.requests, result |-> retried.result] :
                      retried \in {set_leverage(new_leverage, call_number + 1, brackets_read,
                                                symbol_max, valid_up_to, other_at)}})
        ELSE [requests |-> <<requested>>, result |-> reply]

RequestedLeverages == {1, 2, 3, 8, 25}
SymbolMaxLeverages == {4, 25}
BracketReads == [1 .. MaxRequests -> BOOLEAN]

SetLeverage(leverage, brackets_read, symbol_max, valid_up_to, other_at) ==
    /\ pm_call.fn = ""
    /\ pm_call' = [fn |-> "set_leverage", leverage |-> leverage,
                   brackets_read |-> brackets_read, symbol_max |-> symbol_max,
                   valid_up_to |-> valid_up_to, other_at |-> other_at,
                   returned |-> set_leverage(leverage, 1, brackets_read, symbol_max,
                                             valid_up_to, other_at)]
    /\ PmFrame

\* the exit prices of an entry at entry_price, as check_and_enter_position
\* computes them
CalculateExitPrices(entry_price, position_side, tp_percent, sl_percent, precision) ==
    /\ pm_call.fn = ""
    /\ pm_call' = [fn |-> "exit prices", entry_price |-> entry_price,
                   position_side |-> position_side, tp_percent |-> tp_percent,
                   sl_percent |-> sl_percent, precision |-> precision,
                   tp_price |-> calculate_take_profit_price(entry_price, position_side,
                                                            tp_percent, precision),
                   sl_price |-> calculate_stop_loss_price(entry_price, position_side,
                                                          sl_percent, precision),
                   adjusted_tp_price |-> adjusted_take_profit_price(entry_price,
                                              position_side, tp_percent, precision)]
    /\ PmFrame
CalculateHedgePositionSize(position_amt, current_price, ratio, precision) ==
    /\ pm_call.fn = ""
    /\ pm_call' = [fn |-> "calculate_hedge_position_size", position_amt |-> position_amt,
                   current_price |-> current_price, ratio |-> ratio,
                   precision |-> precision,
                   quantity |-> calculate_hedge_position_size(
                                    [position_amt |-> position_amt], current_price,
                                    ratio, precision)]
    /\ PmFrame
ShouldHedgePosition(auto, position_risk, profit_threshold, loss_threshold) ==
    /\ pm_call.fn = ""
    /\ pm_call' = [fn |-> "should_hedge_position", auto_hedge |-> auto,
                   position_risk |-> position_risk,
                   profit_threshold |-> profit_threshold,
                   loss_threshold |-> loss_threshold,
                   returned |-> should_hedge_position(auto, position_risk, "BTCUSDT",
                                                      profit_threshold, loss_threshold)]
    /\ PmFrame
CanEnterPosition(hedge, allow, position_risk, position_side) ==
    /\ pm_call.fn = ""
    /\ pm_call' = [fn |-> "can_enter_position", hedge_mode |-> hedge,
                   allow_both |-> allow, position_risk |-> position_risk,
                   position_side |-> position_side,
                   returned |-> can_enter_position(hedge, allow, position_risk,
                                                   "BTCUSDT", position_side)]
    /\ PmFrame

(***************************************************************************)
(* TradingBot.check_and_enter_position and the notifier it reports to.     *)
(* The client's calls are taken by their outcome: they return or raise.    *)
(***************************************************************************)
\* TelegramNotifier.send_message raises: once past the enabled test it reads
\* self.is_backtest_or_simulation, an attribute nothing defines, outside its try
send_message_raises == telegram_enabled

notify_error_raises == send_message_raises
notify_signal_raises(sig) == notify_signals /\ sig # "WAIT" /\ send_message_raises
notify_auto_hedge_raises == telegram_enabled /\ send_message_raises
notify_fee_adjusted_tp_raises == notify_entries /\ telegram_enabled /\ send_message_raises

Sides == {"LONG", "SHORT"}
Order(type, side, position_side, quantity, ok) ==
    [type |-> type, side |-> side, position_side |-> position_side,
     quantity |-> quantity, ok |-> ok]
\* order_side; tp_side and sl_side are its opposite
OrderSide(sig) == IF sig = "LONG" THEN "BUY" ELSE "SELL"
ExitSide(sig) == IF sig = "LONG" THEN "SELL" ELSE "BUY"

AUTO_HEDGE_PROFIT_THRESHOLD == 1
AUTO_HEDGE_LOSS_THRESHOLD == 1
HEDGE_POSITION_SIZE_RATIO == Frac(1, 2)
\* the quantity precision of the bot's symbol
quantityPrecision == 3
\* get_price_precision() of a symbol whose exchange info has no pricePrecision
pricePrecision == 2

\* the market prices of the bot's symbol
MarketPrices == {Num(1000), Num(1001)}
\* what get_account_info gives the cycle: the wallet, or nothing when it failed
WalletReads == {[ok |-> TRUE, totalWalletBalance |-> Num(10000)],
                [ok |-> FALSE, totalWalletBalance |-> Num(0)]}

\* the position-risk entries of the symbol on an account without a position:
\* a LONG and a SHORT entry in hedge mode, one BOTH entry in one-way mode
FlatRisk(hedge, mark_price) ==
    IF hedge
    THEN <<Position("BTCUSDT", "LONG", Num(0), Num(0), mark_price, LEVERAGE),
           Position("BTCUSDT", "SHORT", Num(0), Num(0), mark_price, LEVERAGE)>>
    ELSE <<Position("BTCUSDT", "BOTH", Num(0), Num(0), mark_price, LEVERAGE)>>

\* the exchange fills a market order of the given position side: the entry of
\* that side (the BOTH entry in one-way mode) moves by the quantity, and its
\* entry price is the average price of what is held
Filled(risk, position_side, qty, fill_price) ==
    [i \in DOMAIN risk |->
        LET p == risk[i]
            delta == IF position_side = "LONG" THEN qty ELSE Sub(Num(0), qty)
            amt == Add(p.positionAmt, delta)
            grows == p.positionAmt = Num(0) \/ (Lt(Num(0), p.positionAmt) <=> Lt(Num(0), delta))
            flips == ~grows /\ (Lt(Num(0), amt) <=> Lt(Num(0), delta))
            entry == IF amt = Num(0) THEN Num(0)
                     ELSE IF grows
                     THEN Div(Add(Mul(fabs(p.positionAmt), p.entryPrice), Mul(qty, fill_price)),
                              fabs(amt))
                     ELSE IF flips THEN fill_price
                     ELSE p.entryPrice
        IN  IF p.positionSide \in {position_side, "BOTH"}
            THEN [p EXCEPT !.positionAmt = amt, !.entryPrice = entry]
            ELSE p]

\* the quantity of the entry: every entry sized from the balance
entry_quantity_from_balance(should, side, pnl, account, risk, current_price) ==
    calculate_position_size(account, get_open_positions(risk, "BTCUSDT"), current_price,
                            LEVERAGE, quantityPrecision)

\* the quantity of the entry: from the position to hedge when the cycle
\* hedges, from the balance otherwise
entry_quantity(should, side, pnl, account, risk, current_price) ==
    IF should
    THEN LET original_position == IF side = "SHORT" THEN pnl.long_position
                                  ELSE pnl.short_position
         IN  calculate_hedge_position_size(original_position, current_price,
                                           HEDGE_POSITION_SIZE_RATIO, quantityPrecision)
    ELSE calculate_position_size(account, get_open_positions(risk, "BTCUSDT"), current_price,
                                 LEVERAGE, quantityPrecision)

BotIdle ==
    /\ b_pc = "idle"
    /\ signal = ""
    /\ should_hedge = FALSE
    /\ submitted = <<>>
    /\ b_hedge_side = ""
    /\ b_pnl_info = NonePnlInfo
    /\ b_quantity = Num(0)
    /\ risk_entries = <<>>
    /\ market_price = Num(1000)
    /\ fills = 0

ConfigDefault ==
    /\ telegram_enabled = FALSE
    /\ notify_signals = FALSE
    /\ notify_entries = TRUE
    /\ hedge_mode = TRUE
    /\ allow_both = TRUE
    /\ auto_hedge = FALSE

\* the cycle goes on to the block at pc
Goes(pc) == b_pc' = pc
\* a return statement
Return == b_pc' = "returned"
\* an exception reaches the handler of the function's outer try, which calls
\* notify_error itself
Except == b_pc' = IF notify_error_raises THEN "raised" ELSE "returned"
\* notify_error(...) followed by what the code does next
NotifyErrorThen(next) == IF notify_error_raises THEN Except ELSE next

\* the market price moves between two cycles
PriceMoves(p) ==
    /\ b_pc = "idle"
    /\ p # market_price
    /\ market_price' = p
    /\ risk_entries' = [i \in DOMAIN risk_entries |-> [risk_entries[i] EXCEPT !.markPrice = p]]
    /\ UNCHANGED <<b_pc, submitted, localVars, fills>>
    /\ BotFrame

\* between two cycles the exchange closes a position (its take-profit or
\* stop-loss order triggered, or it was liquidated)
PositionCloses(i) ==
    /\ b_pc = "idle"
    /\ risk_entries[i].positionAmt # Num(0)
    /\ risk_entries' = [risk_entries EXCEPT ![i].positionAmt = Num(0),
                                              ![i].entryPrice = Num(0)]
    /\ UNCHANGED <<b_pc, submitted, localVars, market_price, fills>>
    /\ BotFrame

\* run() calls check_and_enter_position
CycleBegins ==
    /\ b_pc = "idle"
    /\ Goes("market data")
    /\ UNCHANGED <<submitted, localVars, exchangeVars>>
    /\ BotFrame

\* get_klines and the indicators
GetMarketData(out) ==
    /\ b_pc = "market data"
    /\ CASE out = "ok" -> Goes("signal")
         [] out = "insufficient" -> Return
         [] out = "failed" -> NotifyErrorThen(Return)
    /\ UNCHANGED <<submitted, localVars, exchangeVars>>
    /\ BotFrame

\* check_entry_signal, should_hedge_position and the signal notification; sig
\* is "" when there is no signal and "error" when check_entry_signal raised
CheckSignal(sig) ==
    /\ b_pc = "signal"
    /\ IF sig = "error"
       THEN /\ NotifyErrorThen(Return)
            /\ UNCHANGED <<signal, should_hedge, b_hedge_side, b_pnl_info>>
       ELSE \E decision \in {should_hedge_position(auto_hedge, risk_entries, "BTCUSDT",
                                                     Num(AUTO_HEDGE_PROFIT_THRESHOLD),
                                                     Num(AUTO_HEDGE_LOSS_THRESHOLD))} :
            LET overrides == decision.should_hedge /\ decision.hedge_side # ""
                sg == IF overrides THEN decision.hedge_side ELSE sig
            IN  /\ signal' = sg
                /\ should_hedge' = decision.should_hedge
                /\ b_hedge_side' = decision.hedge_side
                /\ b_pnl_info' = decision.pnl_info
                /\ IF overrides /\ notify_auto_hedge_raises THEN Except
                   ELSE IF sg = "" THEN Return
                   ELSE IF ~decision.should_hedge /\ notify_signal_raises(sg) THEN Except
                   ELSE Goes("size")
    /\ UNCHANGED <<submitted, b_quantity, exchangeVars>>
    /\ BotFrame

\* can_enter_position, get_current_price and the position size
PreparesEntry(price_ok, account) ==
    /\ b_pc = "size"
    /\ IF ~can_enter_position(hedge_mode, allow_both, risk_entries, "BTCUSDT", signal)
       THEN Return /\ UNCHANGED b_quantity
       ELSE IF ~price_ok THEN Except /\ UNCHANGED b_quantity
       ELSE /\ b_quantity' = entry_quantity(should_hedge, b_hedge_side, b_pnl_info, account,
                                          risk_entries, market_price)
            /\ IF b_quantity' = Num(0) THEN Return ELSE Goes("market order")
    /\ UNCHANGED <<signal, should_hedge, b_hedge_side, b_pnl_info, submitted, exchangeVars>>
    /\ BotFrame

\* place_market_order; an accepted order is filled by the exchange
PlaceMarketOrder(ok) ==
    /\ b_pc = "market order"
    /\ ok => fills < MaxFills
    /\ submitted' = Append(submitted, Order("MARKET", OrderSide(signal), signal, b_quantity, ok))
    /\ IF ok
       THEN /\ Goes("fees")
            /\ risk_entries' = Filled(risk_entries, signal, b_quantity, market_price)
            /\ fills' = fills + 1
       ELSE /\ NotifyErrorThen(Return)
            /\ UNCHANGED <<risk_entries, fills>>
    /\ UNCHANGED <<localVars, market_price>>
    /\ BotFrame

\* the take-profit price and its adjustment for fees
AdjustsTakeProfit(is_profitable) ==
    /\ b_pc = "fees"
    /\ IF ~is_profitable /\ notify_fee_adjusted_tp_raises THEN Except ELSE Goes("take profit")
    /\ UNCHANGED <<submitted, localVars, exchangeVars>>
    /\ BotFrame

\* place_take_profit_order
PlaceTakeProfit(ok) ==
    /\ b_pc = "take profit"
    /\ submitted' = Append(submitted,
                           Order("TAKE_PROFIT_MARKET", ExitSide(signal), signal, b_quantity, ok))
    /\ IF ok THEN Goes("stop loss") ELSE NotifyErrorThen(Goes("stop loss"))
    /\ UNCHANGED <<localVars, exchangeVars>>
    /\ BotFrame

\* place_stop_loss_order
PlaceStopLoss(ok) ==
    /\ b_pc = "stop loss"
    /\ submitted' = Append(submitted, Order("STOP_MARKET", ExitSide(signal), signal, b_quantity, ok))
    /\ IF ok THEN Goes("report") ELSE NotifyErrorThen(Goes("report"))
    /\ UNCHANGED <<localVars, exchangeVars>>
    /\ BotFrame

\* the entry and hedge notifications: whatever they raise is caught and logged
Reports ==
    /\ b_pc = "report"
    /\ Return
    /\ UNCHANGED <<submitted, localVars, exchangeVars>>
    /\ BotFrame

\* the cycle is over
CycleEnds ==
    /\ b_pc \in {"returned", "raised"}
    /\ b_pc' = "idle"
    /\ signal' = ""
    /\ should_hedge' = FALSE
    /\ b_hedge_side' = ""
    /\ b_pnl_info' = NonePnlInfo
    /\ b_quantity' = Num(0)
    /\ submitted' = <<>>
    /\ UNCHANGED exchangeVars
    /\ BotFrame

(***************************************************************************)
(* TradingBot.run: the loop of one per-symbol unit, and what BotManager    *)
(* and the clock do to it                                                  *)
(***************************************************************************)
RunIdle ==
    /\ r_pc = "new"
    /\ is_running = TRUE
    /\ is_trading_allowed = TRUE
    /\ start_of_day = 0
    /\ today = 0
    /\ reported = -1

DAILY_PROFIT_TARGET == 10
DAILY_LOSS_LIMIT == 5

\* what get_daily_pnl gives check_daily_pnl: a summary with its PnL percentage,
\* or an exception
PnlPercentages == {-6, -5, -4, 0, 9, 10, 11}
DailyPnlReads ==
    {[ok |-> TRUE, pnl_percentage |-> p] : p \in PnlPercentages}
        \cup {[ok |-> FALSE, pnl_percentage |-> 0]}

\* the two tests of check_daily_pnl that make it return False
target_or_limit_reached(pnl_summary) ==
    \/ pnl_summary.pnl_percentage >= DAILY_PROFIT_TARGET
    \/ pnl_summary.pnl_percentage <= -DAILY_LOSS_LIMIT

\* the UTC day changes
DayPasses ==
    /\ today < MaxDay
    /\ today' = today + 1
    /\ UNCHANGED <<r_pc, is_running, is_trading_allowed, start_of_day, reported>>
    /\ RunFrame

\* BotManager.update_trading_pairs drops the symbol
StopRequested ==
    /\ r_pc # "new"
    /\ is_running
    /\ is_running' = FALSE
    /\ UNCHANGED <<r_pc, is_trading_allowed, start_of_day, today, reported>>
    /\ RunFrame

\* run() up to its loop: the start message is sent outside any try
RunStarts ==
    /\ r_pc = "new"
    /\ r_pc' = IF send_message_raises THEN "died" ELSE "loop"
    /\ UNCHANGED <<is_running, is_trading_allowed, start_of_day, today, reported>>
    /\ RunFrame

\* the loop going on whatever is_running says
LoopTestAlways ==
    /\ r_pc = "loop"
    /\ r_pc' = "new day"
    /\ UNCHANGED <<is_running, is_trading_allowed, start_of_day, today, reported>>
    /\ RunFrame

\* while self.is_running, and the stop message after the loop
LoopTest ==
    /\ r_pc = "loop"
    /\ r_pc' = IF is_running THEN "new day"
               ELSE IF send_message_raises THEN "died" ELSE "stopped"
    /\ UNCHANGED <<is_running, is_trading_allowed, start_of_day, today, reported>>
    /\ RunFrame

\* check_for_new_day
CheckForNewDay ==
    /\ r_pc = "new day"
    /\ IF today > start_of_day
       THEN /\ start_of_day' = today
            /\ is_trading_allowed' = TRUE
            /\ r_pc' = IF send_message_raises THEN "handler" ELSE "pnl"
       ELSE /\ r_pc' = "pnl"
            /\ UNCHANGED <<start_of_day, is_trading_allowed>>
    /\ UNCHANGED <<is_running, today, reported>>
    /\ RunFrame

\* if self.is_trading_allowed: self.is_trading_allowed = self.check_daily_pnl()
\* check_daily_pnl notifies a reached target or limit, and an exception of
\* get_daily_pnl; the notification raising leaves check_daily_pnl through the
\* notify_error of its own handler
CheckDailyPnl(pnl_summary) ==
    /\ r_pc = "pnl"
    /\ IF ~is_trading_allowed
       THEN /\ r_pc' = "enter"
            /\ UNCHANGED <<is_trading_allowed, reported>>
       ELSE IF pnl_summary.ok /\ ~target_or_limit_reached(pnl_summary)
       THEN /\ r_pc' = "enter"
            /\ is_trading_allowed' = TRUE
            /\ UNCHANGED reported
       ELSE IF notify_error_raises
       THEN /\ r_pc' = "handler"
            /\ UNCHANGED <<is_trading_allowed, reported>>
       ELSE IF ~pnl_summary.ok
       THEN /\ r_pc' = "enter"
            /\ is_trading_allowed' = TRUE
            /\ UNCHANGED reported
       ELSE /\ r_pc' = "enter"
            /\ is_trading_allowed' = FALSE
            /\ reported' = start_of_day
    /\ UNCHANGED <<is_running, start_of_day, today>>
    /\ RunFrame

\* the cycle entered whatever is_trading_allowed says
RunCallsCycleAlways ==
    /\ r_pc = "enter"
    /\ b_pc = "idle"
    /\ r_pc' = "cycle"
    /\ b_pc' = "market data"
    /\ UNCHANGED <<is_running, is_trading_allowed, start_of_day, today, reported>>
    /\ UNCHANGED <<submitted, localVars, exchangeVars>>
    /\ UNCHANGED <<gwVars, cacheVars, rawVars, readVars, threadVars, configVars, pmVars, mgrVars, gridVars>>

\* if self.is_trading_allowed: self.check_and_enter_position()
RunCallsCycle ==
    /\ r_pc = "enter"
    /\ is_trading_allowed
    /\ b_pc = "idle"
    /\ r_pc' = "cycle"
    /\ b_pc' = "market data"
    /\ UNCHANGED <<is_running, is_trading_allowed, start_of_day, today, reported>>
    /\ UNCHANGED <<submitted, localVars, exchangeVars>>
    /\ UNCHANGED <<gwVars, cacheVars, rawVars, readVars, threadVars, configVars, pmVars, mgrVars, gridVars>>

\* trading is not allowed: the cycle only sleeps
RunSkipsCycle ==
    /\ r_pc = "enter"
    /\ ~is_trading_allowed
    /\ r_pc' = "sleep"
    /\ UNCHANGED <<is_running, is_trading_allowed, start_of_day, today, reported>>
    /\ RunFrame

\* check_and_enter_position is over: it returned, or its handler raised
RunCycleReturns ==
    /\ r_pc = "cycle"
    /\ b_pc \in {"returned", "raised"}
    /\ r_pc' = IF b_pc = "raised" THEN "handler" ELSE "sleep"
    /\ b_pc' = "idle"
    /\ signal' = ""
    /\ should_hedge' = FALSE
    /\ b_hedge_side' = ""
    /\ b_pnl_info' = NonePnlInfo
    /\ b_quantity' = Num(0)
    /\ submitted' = <<>>
    /\ UNCHANGED exchangeVars
    /\ UNCHANGED <<is_running, is_trading_allowed, start_of_day, today, reported>>
    /\ UNCHANGED <<gwVars, cacheVars, rawVars, readVars, threadVars, configVars, pmVars, mgrVars, gridVars>>

\* time.sleep(config.CHECK_INTERVAL)
Sleeps ==
    /\ r_pc = "sleep"
    /\ r_pc' = "loop"
    /\ UNCHANGED <<is_running, is_trading_allowed, start_of_day, today, reported>>
    /\ RunFrame

\* an exception that the functions called in the try of run let through
RunCycleRaises ==
    /\ r_pc \in {"new day", "pnl", "enter", "sleep"}
    /\ r_pc' = "handler"
    /\ UNCHANGED <<is_running, is_trading_allowed, start_of_day, today, reported>>
    /\ RunFrame

\* except Exception: notify_error, then time.sleep(10)
Handler ==
    /\ r_pc = "handler"
    /\ r_pc' = IF notify_error_raises THEN "died" ELSE "loop"
    /\ UNCHANGED <<is_running, is_trading_allowed, start_of_day, today, reported>>
    /\ RunFrame

(***************************************************************************)
(* BotManager: start_all, the monitor thread, update_trading_pairs, and    *)
(* main's loop                                                             *)
(***************************************************************************)
\* the order in which a list of symbols is walked
SymbolOrder == <<"BTCUSDT", "ETHUSDT">>
ListOf(set) == SelectSeq(SymbolOrder, LAMBDA sym : sym \in set)

\* self.threads is a dict: its entries in insertion order, a deleted entry
\* leaving its slot behind as the dict iterator sees it
ThreadKeys(d) == {d[i].key : i \in {j \in DOMAIN d : d[j].live}}
Used(d) == Cardinality({i \in DOMAIN d : d[i].live})
PutThread(d, k, v) ==
    IF k \in ThreadKeys(d)
    THEN [i \in DOMAIN d |-> IF d[i].live /\ d[i].key = k THEN [d[i] EXCEPT !.unit = v] ELSE d[i]]
    ELSE Append(d, [key |-> k, unit |-> v, live |-> TRUE])
DelThread(d, k) ==
    [i \in DOMAIN d |-> IF d[i].live /\ d[i].key = k THEN [d[i] EXCEPT !.live = FALSE] ELSE d[i]]
\* list(self.threads.keys())
KeyList(d) ==
    LET liveSlots == SelectSeq(d, LAMBDA e : e.live)
    IN  [i \in DOMAIN liveSlots |-> liveSlots[i].key]

\* a TradingBot with its thread
Unit(sym) == [symbol |-> sym, is_running |-> TRUE, alive |-> TRUE]

\* the symbol has a unit whose thread is alive
HasLiveUnit(sym) == \E u \in DOMAIN m_units : m_units[u].symbol = sym /\ m_units[u].alive

NoStart == [t \in Threads |-> ""]

ManagerIdle ==
    /\ m_use_high_volume = FALSE
    /\ m_symbols = {}
    /\ m_closed = {}
    /\ m_bots = [sym \in Symbols |-> 0]
    /\ m_threads = <<>>
    /\ m_units = <<>>
    /\ m_main_pc = "start_all"
    /\ m_main_ret = "spawn"
    /\ m_todo = <<>>
    /\ m_new_symbols = {}
    /\ m_updates = 0
    /\ m_updated = FALSE
    /\ m_attempted = {}
    /\ mon_pc = "off"
    /\ mon_i = 0
    /\ mon_used = 0
    /\ mon_len = 0
    /\ sb_symbol = NoStart
    /\ sb_pc = [t \in Threads |-> "none"]

\* a unit's thread ends: run() was left by an exception or by its while test
UnitDies(u) ==
    /\ m_units[u].alive
    /\ m_units' = [m_units EXCEPT ![u].alive = FALSE]
    /\ UNCHANGED <<m_use_high_volume, m_symbols, m_closed, m_bots, m_threads, mainVars, monVars, startVars>>
    /\ ManagerFrame

\* a call of start_bot(sym) by thread t
CallsStartBot(t, sym) ==
    /\ sb_symbol' = [sb_symbol EXCEPT ![t] = sym]
    /\ sb_pc' = [sb_pc EXCEPT ![t] = "check"]
    /\ m_attempted' = m_attempted \cup {sym}

\* start_bot up to the price read: the closed test, get_current_price and
\* TradingBot(symbol), either of which may raise
StartBotChecks(t, out) ==
    /\ sb_pc[t] = "check"
    /\ out = "ok" => Len(m_units) < MaxUnits
    /\ LET sym == sb_symbol[t]
       IN  IF sym \in m_closed
           THEN /\ sb_pc' = [sb_pc EXCEPT ![t] = "none"]
                /\ sb_symbol' = [sb_symbol EXCEPT ![t] = ""]
                /\ UNCHANGED <<m_closed, m_symbols>>
           ELSE CASE out = "ok" ->
                       /\ sb_pc' = [sb_pc EXCEPT ![t] = "register"]
                       /\ UNCHANGED <<sb_symbol, m_closed, m_symbols>>
                  [] out = "closed" ->
                       /\ m_closed' = m_closed \cup {sym}
                       /\ m_symbols' = m_symbols \ {sym}
                       /\ sb_pc' = [sb_pc EXCEPT ![t] = "none"]
                       /\ sb_symbol' = [sb_symbol EXCEPT ![t] = ""]
                  [] out = "error" ->
                       /\ sb_pc' = [sb_pc EXCEPT ![t] = "none"]
                       /\ sb_symbol' = [sb_symbol EXCEPT ![t] = ""]
                       /\ UNCHANGED <<m_closed, m_symbols>>
    /\ UNCHANGED <<m_use_high_volume, m_bots, m_threads, m_units, m_attempted, mainVars, monVars>>
    /\ ManagerFrame

\* start_bot: self.bots[symbol] = bot, thread.start(), self.threads[symbol] = thread
StartBotRegisters(t) ==
    /\ sb_pc[t] = "register"
    /\ LET sym == sb_symbol[t]
           u == Len(m_units) + 1
       IN  /\ m_units' = Append(m_units, Unit(sym))
           /\ m_bots' = [m_bots EXCEPT ![sym] = u]
           /\ m_threads' = PutThread(m_threads, sym, u)
    /\ sb_pc' = [sb_pc EXCEPT ![t] = "none"]
    /\ sb_symbol' = [sb_symbol EXCEPT ![t] = ""]
    /\ UNCHANGED <<m_use_high_volume, m_symbols, m_closed, m_attempted, mainVars, monVars>>
    /\ ManagerFrame

\* start_all: one turn of its loop, and what follows the loop
StartAll ==
    /\ m_main_pc = "start_all"
    /\ sb_pc["main"] = "none"
    /\ IF m_todo # <<>>
       THEN /\ CallsStartBot("main", Head(m_todo))
            /\ m_todo' = Tail(m_todo)
            /\ UNCHANGED <<m_main_pc, m_main_ret>>
       ELSE /\ m_main_pc' = IF m_threads = <<>> /\ m_use_high_volume THEN "ranking" ELSE "spawn"
            /\ m_main_ret' = "spawn"
            /\ UNCHANGED <<m_todo, sb_symbol, sb_pc, m_attempted>>
    /\ UNCHANGED <<m_use_high_volume, m_symbols, m_closed, m_bots, m_threads, m_units,
                   m_new_symbols, m_updates, m_updated, monVars>>
    /\ ManagerFrame

\* main: the monitor thread is started
SpawnsMonitor ==
    /\ m_main_pc = "spawn"
    /\ m_main_pc' = "loop"
    /\ mon_pc' = "sleep"
    /\ UNCHANGED <<m_use_high_volume, m_symbols, m_closed, m_bots, m_threads, m_units,
                   m_main_ret, m_todo, m_new_symbols, m_updates, m_updated,
                   mon_i, mon_used, mon_len, startVars>>
    /\ ManagerFrame

\* main's loop: the update interval has passed
MainUpdates ==
    /\ m_main_pc = "loop"
    /\ m_use_high_volume
    /\ m_updates < MaxUpdates
    /\ m_updates' = m_updates + 1
    /\ m_main_pc' = "ranking"
    /\ m_main_ret' = "loop"
    /\ UNCHANGED <<m_use_high_volume, m_symbols, m_closed, m_bots, m_threads, m_units,
                   m_todo, m_new_symbols, m_updated, monVars, startVars>>
    /\ ManagerFrame

\* update_trading_pairs up to its first loop: the ranking is read and the
\* closed symbols are taken out of it
UpdateRanks(ranking) ==
    /\ m_main_pc = "ranking"
    /\ LET open == ranking \ m_closed
       IN  IF open = {}
           THEN /\ m_main_pc' = m_main_ret
                /\ UNCHANGED <<m_new_symbols, m_todo, m_updated>>
           ELSE /\ m_main_pc' = "stopping"
                /\ m_new_symbols' = open
                /\ m_todo' = KeyList(m_threads)
                /\ m_updated' = FALSE
    /\ UNCHANGED <<m_use_high_volume, m_symbols, m_closed, m_bots, m_threads, m_units,
                   m_main_ret, m_updates, monVars, startVars>>
    /\ ManagerFrame

\* update_trading_pairs: one turn of the loop that stops the units of the
\* symbols dropped, and self.symbols = new_symbols after it
UpdateStops ==
    /\ m_main_pc = "stopping"
    /\ IF m_todo = <<>>
       THEN /\ m_symbols' = m_new_symbols
            /\ m_todo' = ListOf(m_new_symbols)
            /\ m_main_pc' = "starting"
            /\ UNCHANGED <<m_units, m_bots, m_threads>>
       ELSE /\ m_todo' = Tail(m_todo)
            /\ UNCHANGED <<m_main_pc, m_symbols>>
            /\ LET sym == Head(m_todo)
               IN  IF sym \in m_new_symbols
                   THEN UNCHANGED <<m_units, m_bots, m_threads>>
                   ELSE /\ m_units' = [m_units EXCEPT ![m_bots[sym]].is_running = FALSE]
                        /\ m_bots' = [m_bots EXCEPT ![sym] = 0]
                        /\ m_threads' = DelThread(m_threads, sym)
    /\ UNCHANGED <<m_use_high_volume, m_closed, m_main_ret, m_new_symbols, m_updates,
                   m_updated, monVars, startVars>>
    /\ ManagerFrame

\* update_trading_pairs: one turn of the loop that starts the new symbols
UpdateStarts ==
    /\ m_main_pc = "starting"
    /\ sb_pc["main"] = "none"
    /\ IF m_todo = <<>>
       THEN /\ m_main_pc' = m_main_ret
            /\ m_updated' = TRUE
            /\ UNCHANGED <<m_todo, sb_symbol, sb_pc, m_attempted>>
       ELSE /\ m_todo' = Tail(m_todo)
            /\ UNCHANGED <<m_main_pc, m_updated>>
            /\ IF Head(m_todo) \notin ThreadKeys(m_threads)
               THEN CallsStartBot("main", Head(m_todo))
               ELSE UNCHANGED <<sb_symbol, sb_pc, m_attempted>>
    /\ UNCHANGED <<m_use_high_volume, m_symbols, m_closed, m_bots, m_threads, m_units,
                   m_main_ret, m_new_symbols, m_updates, monVars>>
    /\ ManagerFrame

\* monitor: time.sleep(60) is over and the for loop asks self.threads.items()
\* for its iterator
MonitorWakes ==
    /\ mon_pc = "sleep"
    /\ mon_pc' = "iter"
    /\ mon_i' = 0
    /\ mon_used' = Used(m_threads)
    /\ mon_len' = Used(m_threads)
    /\ UNCHANGED <<m_use_high_volume, m_symbols, m_closed, m_bots, m_threads, m_units,
                   mainVars, startVars>>
    /\ ManagerFrame

\* monitor: one turn of `for symbol, thread in self.threads.items()`. The dict
\* iterator raises RuntimeError when the dict's size is not the size it had
\* when the loop began, or when it finds an entry after having given out as
\* many as the dict had; nothing in monitor catches it
MonitorNext ==
    /\ mon_pc = "iter"
    /\ sb_pc["monitor"] = "none"
    /\ LET rest == {j \in DOMAIN m_threads : j > mon_i /\ m_threads[j].live}
       IN  IF Used(m_threads) # mon_used
           THEN /\ mon_pc' = "dead"
                /\ UNCHANGED <<mon_i, mon_len, sb_symbol, sb_pc, m_attempted>>
           ELSE IF rest = {}
           THEN /\ mon_pc' = "sleep"
                /\ UNCHANGED <<mon_i, mon_len, sb_symbol, sb_pc, m_attempted>>
           ELSE IF mon_len = 0
           THEN /\ mon_pc' = "dead"
                /\ UNCHANGED <<mon_i, mon_len, sb_symbol, sb_pc, m_attempted>>
           ELSE LET j == CHOOSE k \in rest : \A l \in rest : k <= l
                IN  /\ mon_i' = j
                    /\ mon_len' = mon_len - 1
                    /\ UNCHANGED mon_pc
                    /\ IF m_units[m_threads[j].unit].alive
                       THEN UNCHANGED <<sb_symbol, sb_pc, m_attempted>>
                       ELSE CallsStartBot("monitor", m_threads[j].key)
    /\ UNCHANGED <<m_use_high_volume, m_symbols, m_closed, m_bots, m_threads, m_units,
                   mon_used, mainVars>>
    /\ ManagerFrame

(***************************************************************************)
(* GridTradingBot: the grid state, its run loop, and the exchange's side   *)
(* of its orders                                                           *)
(***************************************************************************)
GRID_BUY_TRIGGER_PERCENTAGES == <<Frac(1, 1), Frac(8, 10)>>
GRID_BUY_STOP_PERCENTAGES == <<Frac(105, 100), Frac(103, 100)>>
GRID_BUY_LIMIT_PERCENTAGES == <<Frac(1051, 1000), Frac(1031, 1000)>>
GRID_BUY_QUANTITIES_USDT == <<Num(50), Num(100)>>
GRID_SELL_TRIGGER_PERCENTAGES == <<Frac(105, 100), Frac(108, 100)>>
GRID_SELL_STOP_PERCENTAGES == <<Frac(97, 100), Frac(95, 100)>>
GRID_SELL_LIMIT_PERCENTAGES == <<Frac(969, 1000), Frac(949, 1000)>>
GRID_SELL_QUANTITIES_PERCENTAGES == <<Frac(1, 2), Frac(1, 1)>>
GRID_LAST_BUY_PRICE_REMOVAL_THRESHOLD == 10

\* Python's None where a float is expected otherwise
NoneF == [n |-> 0, d |-> 0]
IsNone(x) == x.d = 0

\* list[i] of Python, a negative i counting from the end
PyIndex(list, i) == IF i < 0 THEN list[Len(list) + i + 1] ELSE list[i + 1]

\* the index moved on without the clamp
next_grid_index_unclamped(index, count) == index + 1

\* min(index + 1, len(percentages) - 1)
next_grid_index(index, count) == Min(index + 1, count - 1)

\* the prices get_current_price reads
GridPrices == {Frac(161, 2), Num(120)}

\* an order as the exchange keeps it, with the grid level and the cycle's
\* price at which the bot placed it, and how often its fill has moved the
\* buy index on
GridOrder(order_side, grid_level, placed_at, stop, limit, qty) ==
    [side |-> order_side, level |-> grid_level, placed_price |-> placed_at,
     stop_price |-> stop, limit_price |-> limit, quantity |-> qty, status |-> "NEW",
     advances |-> 0]

\* a trade of get_recent_trades
Trade(id, executed_price, qty) == [orderId |-> id, price |-> executed_price, qty |-> qty]

GridIdle ==
    /\ g_pc = "new"
    /\ g_price = Num(120)
    /\ last_buy_price = NoneF
    /\ lowest_price = NoneF
    /\ current_grid_buy_index = 0
    /\ current_grid_sell_index = 0
    /\ active_buy_order_id = 0
    /\ active_sell_order_id = 0
    /\ g_orders = <<>>
    /\ g_trades = <<>>
    /\ g_balance = Num(0)
    /\ g_seen = <<>>
    /\ g_log = <<>>
    /\ g_stale = FALSE

\* update_lowest_price
update_lowest_price(lowest, current_price) ==
    IF IsNone(lowest) \/ Lt(current_price, lowest) THEN current_price ELSE lowest

\* get_coin_balance: the wallet balance of the base asset, 0.0 when the
\* account read raises
get_coin_balance(balance_ok) == IF balance_ok THEN g_balance ELSE Num(0)

\* get_coin_value_in_usdt: the balance times a price read of its own, taken
\* here to return the cycle's price when it returns
get_coin_value_in_usdt(coin_balance, current_price) == Mul(coin_balance, current_price)

\* should_remove_last_buy_price
should_remove_last_buy_price(last_buy, coin_balance, current_price) ==
    /\ ~IsNone(last_buy)
    /\ Lt(get_coin_value_in_usdt(coin_balance, current_price), Num(GRID_LAST_BUY_PRICE_REMOVAL_THRESHOLD))

\* check_order_executions: the new average buy price
average_buy_price(last_buy, executed_price, index) ==
    LET previous_value == PyIndex(GRID_BUY_QUANTITIES_USDT, index - 1)
        current_value == PyIndex(GRID_BUY_QUANTITIES_USDT, index)
    IN  Div(Add(previous_value, current_value),
            Add(Div(previous_value, last_buy), Div(current_value, executed_price)))

\* the grid state the loop of check_order_executions works on, `raised` when
\* an exception has ended the loop
GridStateOf(last_buy, buy_index, sell_index, buy_id, sell_id) ==
    [last_buy_price |-> last_buy, buy_index |-> buy_index, sell_index |-> sell_index,
     active_buy |-> buy_id, active_sell |-> sell_id, raised |-> FALSE]

\* the body of the loop with a buy fill that leaves the active order id set
on_trade_keeping_order(st, trade, remaining_balance) ==
    IF st.active_buy # 0 /\ trade.orderId = st.active_buy
    THEN [st EXCEPT !.last_buy_price = IF IsNone(st.last_buy_price) THEN trade.price
                                       ELSE average_buy_price(st.last_buy_price, trade.price, st.buy_index),
                    !.buy_index = next_grid_index(st.buy_index, Len(GRID_BUY_TRIGGER_PERCENTAGES))]
    ELSE st

\* check_order_executions: the body of its loop for one trade. The sell
\* branch divides by last_buy_price, a TypeError when that is None; a
\* send_message that raises ends the loop where it stands
on_trade(st, trade, remaining_balance) ==
    IF st.active_buy # 0 /\ trade.orderId = st.active_buy
    THEN LET updated ==
                 [st EXCEPT !.last_buy_price =
                     IF IsNone(st.last_buy_price) THEN trade.price
                     ELSE average_buy_price(st.last_buy_price, trade.price, st.buy_index)]
         IN  IF send_message_raises
             THEN [updated EXCEPT !.raised = TRUE]
             ELSE [updated EXCEPT !.active_buy = 0,
                                  !.buy_index = next_grid_index(st.buy_index, Len(GRID_BUY_TRIGGER_PERCENTAGES))]
    ELSE IF st.active_sell # 0 /\ trade.orderId = st.active_sell
    THEN IF IsNone(st.last_buy_price) \/ send_message_raises
         THEN [st EXCEPT !.raised = TRUE]
         ELSE IF Le(remaining_balance, Frac(1, 10000))
         THEN [st EXCEPT !.active_sell = 0, !.sell_index = 0, !.last_buy_price = NoneF]
         ELSE [st EXCEPT !.active_sell = 0,
                         !.sell_index = next_grid_index(st.sell_index, Len(GRID_SELL_TRIGGER_PERCENTAGES))]
    ELSE st

\* a placement that raises and is told to nobody
placement_failed_silently(order_side) ==
    <<IF order_side = "BUY" THEN "buy failed" ELSE "sell failed">>

\* check_and_place_buy_order / check_and_place_sell_order: the except around
\* place_stop_limit_order, as the cycle's log shows it: the call that raised,
\* then notify_error
placement_failed(order_side) ==
    <<IF order_side = "BUY" THEN "buy failed" ELSE "sell failed", "notify_error">>

\* a buy placed at any price
buy_trigger_reached_always(current_price, index, lowest, last_buy) == TRUE

\* check_and_place_buy_order: current_price <= trigger_price, grid 0 measured
\* against the lowest price and a later grid against the last_buy buy price
buy_trigger_reached(current_price, index, lowest, last_buy) ==
    IF index = 0
    THEN Le(current_price, lowest)
    ELSE /\ ~IsNone(last_buy)
         /\ Le(current_price, Mul(last_buy, PyIndex(GRID_BUY_TRIGGER_PERCENTAGES, index)))

\* check_and_place_sell_order: current_price >= trigger_price
sell_trigger_reached(current_price, index, last_buy) ==
    Le(Mul(last_buy, PyIndex(GRID_SELL_TRIGGER_PERCENTAGES, index)), current_price)

\* the stop-limit buy of check_and_place_buy_order
grid_buy_order(current_price, index) ==
    LET stop == Mul(current_price, PyIndex(GRID_BUY_STOP_PERCENTAGES, index))
        limit == Mul(current_price, PyIndex(GRID_BUY_LIMIT_PERCENTAGES, index))
    IN  GridOrder("BUY", index, current_price, stop, limit,
                  round_quantity(Div(PyIndex(GRID_BUY_QUANTITIES_USDT, index), limit), quantityPrecision))

\* the stop-limit sell of check_and_place_sell_order
grid_sell_order(current_price, index, coin_balance) ==
    LET stop == Mul(current_price, PyIndex(GRID_SELL_STOP_PERCENTAGES, index))
        limit == Mul(current_price, PyIndex(GRID_SELL_LIMIT_PERCENTAGES, index))
    IN  GridOrder("SELL", index, current_price, stop, limit,
                  round_quantity(Mul(coin_balance, PyIndex(GRID_SELL_QUANTITIES_PERCENTAGES, index)),
                                 quantityPrecision))

\* the fills that came in two trades
SplitFills == Len(g_trades) - Cardinality({id \in DOMAIN g_orders : g_orders[id].status = "FILLED"})

\* the exchange fills an order that is open, a buy in one trade or in two and
\* a sell in one, at the price of the cycle that placed it
OrderFills(id, parts) ==
    /\ g_orders[id].status = "NEW"
    /\ parts = 2 => (g_orders[id].side = "BUY" /\ SplitFills < MaxSplits)
    /\ g_orders' = [g_orders EXCEPT ![id].status = "FILLED"]
    /\ LET o == g_orders[id]
       IN  /\ g_trades' = IF parts = 1
                          THEN Append(g_trades, Trade(id, o.placed_price, o.quantity))
                          ELSE g_trades \o <<Trade(id, o.placed_price, Div(o.quantity, Num(2))),
                                             Trade(id, o.placed_price, Div(o.quantity, Num(2)))>>
           /\ g_balance' = IF o.side = "BUY" THEN Add(g_balance, o.quantity)
                           ELSE fmax(Num(0), Sub(g_balance, o.quantity))
    /\ UNCHANGED <<g_pc, g_price, gridState, g_seen, g_log, g_stale>>
    /\ GridFrame

\* the exchange closes an open order without a fill: it expires, is rejected
\* at its trigger or is cancelled from outside the bot; get_order then
\* answers a status other than NEW and no trade of the order exists
OrderExpires(id) ==
    /\ g_orders[id].status = "NEW"
    /\ Cardinality({i \in DOMAIN g_orders : g_orders[i].status = "EXPIRED"}) < MaxExpired
    /\ g_orders' = [g_orders EXCEPT ![id].status = "EXPIRED"]
    /\ UNCHANGED <<g_pc, g_price, gridState, g_trades, g_balance, g_seen, g_log, g_stale>>
    /\ GridFrame

\* run() up to its loop: the start message is sent outside any try
GridRunStarts ==
    /\ g_pc = "new"
    /\ g_pc' = IF send_message_raises THEN "died" ELSE "price"
    /\ UNCHANGED <<g_price, gridState, exchangeGrid, g_seen, g_log, g_stale>>
    /\ GridFrame

\* run: current_price = get_current_price(), update_lowest_price
GridReadsPrice(current_price, price_ok) ==
    /\ g_pc = "price"
    /\ g_log' = <<>>
    /\ g_stale' = FALSE
    /\ g_seen' = <<>>
    /\ IF price_ok
       THEN /\ g_pc' = "dust"
            /\ g_price' = current_price
            /\ lowest_price' = update_lowest_price(lowest_price, current_price)
       ELSE /\ g_pc' = "handler"
            /\ UNCHANGED <<g_price, lowest_price>>
    /\ UNCHANGED <<last_buy_price, current_grid_buy_index, current_grid_sell_index,
                   active_buy_order_id, active_sell_order_id, exchangeGrid>>
    /\ GridFrame

\* run: if self.should_remove_last_buy_price(); the price read inside it is
\* made only when there is a last_buy buy price, and raises into run's handler
GridRemovesDust(balance_ok, value_ok) ==
    /\ g_pc = "dust"
    /\ IF ~IsNone(last_buy_price) /\ ~value_ok
       THEN /\ g_pc' = "handler"
            /\ UNCHANGED <<last_buy_price, current_grid_sell_index>>
       ELSE /\ g_pc' = "executions"
            /\ IF should_remove_last_buy_price(last_buy_price, get_coin_balance(balance_ok), g_price)
               THEN /\ last_buy_price' = NoneF
                    /\ current_grid_sell_index' = 0
               ELSE UNCHANGED <<last_buy_price, current_grid_sell_index>>
    /\ UNCHANGED <<g_price, lowest_price, current_grid_buy_index, active_buy_order_id,
                   active_sell_order_id, exchangeGrid, g_seen, g_log, g_stale>>
    /\ GridFrame

\* run: self.check_order_executions(), up to its loop: the trades are read,
\* and a read that raises is caught and ends the function
GridReadsTrades(trades_ok) ==
    /\ g_pc = "executions"
    /\ IF trades_ok
       THEN /\ g_pc' = "trade"
            /\ g_seen' = g_trades
       ELSE /\ g_pc' = "buy"
            /\ g_seen' = <<>>
    /\ UNCHANGED <<g_price, gridState, g_orders, g_trades, g_balance, g_log, g_stale>>
    /\ GridFrame

\* check_order_executions: one round of `for trade in trades`
GridHandlesTrade(balance_ok) ==
    /\ g_pc = "trade"
    /\ g_seen # <<>>
    /\ \E st \in {on_trade(GridStateOf(last_buy_price, current_grid_buy_index, current_grid_sell_index,
                                      active_buy_order_id, active_sell_order_id),
                          Head(g_seen), get_coin_balance(balance_ok))} :
          /\ last_buy_price' = st.last_buy_price
          /\ current_grid_buy_index' = st.buy_index
          /\ current_grid_sell_index' = st.sell_index
          /\ active_buy_order_id' = st.active_buy
          /\ active_sell_order_id' = st.active_sell
          /\ g_orders' = IF active_buy_order_id # 0 /\ Head(g_seen).orderId = active_buy_order_id /\ ~st.raised
                         THEN [g_orders EXCEPT ![active_buy_order_id].advances = @ + 1]
                         ELSE g_orders
          /\ IF st.raised
             THEN /\ g_pc' = "buy"
                  /\ g_seen' = <<>>
             ELSE /\ g_pc' = "trade"
                  /\ g_seen' = Tail(g_seen)
    /\ UNCHANGED <<g_price, lowest_price, g_trades, g_balance, g_log, g_stale>>
    /\ GridFrame

\* check_order_executions: the loop is through
GridExecutionsDone ==
    /\ g_pc = "trade"
    /\ g_seen = <<>>
    /\ g_pc' = "buy"
    /\ UNCHANGED <<g_price, gridState, exchangeGrid, g_seen, g_log, g_stale>>
    /\ GridFrame

\* run: self.check_and_place_buy_order(current_price). The order read that
\* raises is caught and clears the active id; the price read of
\* get_coin_value_in_usdt is outside any try of the function; a placement
\* that raises, or whose message raises, goes to notify_error
GridChecksBuy(order_ok, value_ok, place_ok, balance_ok) ==
    /\ g_pc = "buy"
    /\ place_ok => Len(g_orders) < MaxOrders
    /\ LET active == active_buy_order_id # 0
           is_new == active /\ order_ok /\ g_orders[active_buy_order_id].status = "NEW"
           cancels == is_new /\ Lt(g_price, Mul(lowest_price, Frac(99, 100)))
           returns_early == active /\ order_ok /\ ~cancels
           lowest == IF cancels THEN update_lowest_price(lowest_price, g_price) ELSE lowest_price
           value_raises == ~returns_early /\ current_grid_buy_index = 0 /\ ~value_ok
           skips_first == /\ current_grid_buy_index = 0
                          /\ Le(Num(10), get_coin_value_in_usdt(get_coin_balance(balance_ok), g_price))
           places == /\ ~returns_early
                     /\ ~value_raises
                     /\ ~skips_first
                     /\ buy_trigger_reached(g_price, current_grid_buy_index, lowest, last_buy_price)
           canceled == IF cancels
                       THEN [g_orders EXCEPT ![active_buy_order_id].status = "CANCELED"]
                       ELSE g_orders
       IN  /\ g_stale' = (is_new /\ Lt(g_price, Mul(g_orders[active_buy_order_id].placed_price,
                                                     Frac(99, 100))))
           /\ lowest_price' = lowest
           /\ IF places /\ place_ok
              THEN /\ g_orders' = Append(canceled, grid_buy_order(g_price, current_grid_buy_index))
                   /\ active_buy_order_id' = Len(g_orders) + 1
                   /\ g_log' = g_log \o (IF cancels THEN <<"cancel">> ELSE <<>>) \o <<"buy">>
                   /\ g_pc' = IF send_message_raises THEN "handler" ELSE "sell"
              ELSE /\ g_orders' = canceled
                   /\ active_buy_order_id' = IF returns_early THEN active_buy_order_id ELSE 0
                   /\ g_log' = g_log \o (IF cancels THEN <<"cancel">> ELSE <<>>)
                                   \o (IF places THEN placement_failed("BUY") ELSE <<>>)
                   /\ g_pc' = IF value_raises \/ (places /\ notify_error_raises)
                              THEN "handler" ELSE "sell"
    /\ UNCHANGED <<g_price, last_buy_price, current_grid_buy_index, current_grid_sell_index,
                   active_sell_order_id, g_trades, g_balance, g_seen>>
    /\ GridFrame

\* run: self.check_and_place_sell_order(current_price)
GridChecksSell(order_ok, place_ok, balance_ok) ==
    /\ g_pc = "sell"
    /\ place_ok => Len(g_orders) < MaxOrders
    /\ LET active == active_sell_order_id # 0
           cancels == /\ active
                      /\ order_ok
                      /\ g_orders[active_sell_order_id].status = "NEW"
                      /\ Lt(Mul(last_buy_price, Frac(101, 100)), g_price)
           returns_early == active /\ order_ok /\ ~cancels
           coin_balance == get_coin_balance(balance_ok)
           places == /\ ~returns_early
                     /\ Lt(Num(0), coin_balance)
                     /\ sell_trigger_reached(g_price, current_grid_sell_index, last_buy_price)
           canceled == IF cancels
                       THEN [g_orders EXCEPT ![active_sell_order_id].status = "CANCELED"]
                       ELSE g_orders
       IN  IF IsNone(last_buy_price)
           THEN /\ g_pc' = "sleep"
                /\ UNCHANGED <<g_orders, active_sell_order_id, g_log>>
           ELSE IF places /\ place_ok
           THEN /\ g_orders' = Append(canceled,
                                      grid_sell_order(g_price, current_grid_sell_index, coin_balance))
                /\ active_sell_order_id' = Len(g_orders) + 1
                /\ g_log' = g_log \o (IF cancels THEN <<"cancel">> ELSE <<>>) \o <<"sell">>
                /\ g_pc' = IF send_message_raises THEN "handler" ELSE "sleep"
           ELSE /\ g_orders' = canceled
                /\ active_sell_order_id' = IF returns_early THEN active_sell_order_id ELSE 0
                /\ g_log' = g_log \o (IF cancels THEN <<"cancel">> ELSE <<>>)
                                \o (IF places THEN placement_failed("SELL") ELSE <<>>)
                /\ g_pc' = IF places /\ notify_error_raises THEN "handler" ELSE "sleep"
    /\ UNCHANGED <<g_price, last_buy_price, lowest_price, current_grid_buy_index,
                   current_grid_sell_index, active_buy_order_id, g_trades, g_balance,
                   g_seen, g_stale>>
    /\ GridFrame

\* run: time.sleep(config.CHECK_INTERVAL)
GridSleeps ==
    /\ g_pc = "sleep"
    /\ g_pc' = "price"
    /\ UNCHANGED <<g_price, gridState, exchangeGrid, g_seen, g_log, g_stale>>
    /\ GridFrame

\* run: except Exception: notify_error, then time.sleep(10)
GridHandler ==
    /\ g_pc = "handler"
    /\ g_pc' = IF notify_error_raises THEN "died" ELSE "price"
    /\ UNCHANGED <<g_price, gridState, exchangeGrid, g_seen, g_log, g_stale>>
    /\ GridFrame

(***************************************************************************)
(* BinanceClient._switch_endpoint and _send_request                        *)
(***************************************************************************)
\* _switch_endpoint: what it returns and what it leaves in self.base_url and
\* self.fallback_urls
switch_endpoint ==
    IF fallback_urls = <<>>
    THEN [switched |-> FALSE, base_url |-> PrimaryUrl, fallback_urls |-> fallback_urls]
    ELSE [switched |-> TRUE, base_url |-> Head(fallback_urls),
          fallback_urls |-> Tail(fallback_urls)]

\* a loop bound that counts one endpoint too many
MaxEndpointAttemptsOneMore(fb) == 2 + Len(fb)

\* line 247
MaxEndpointAttempts(fb) == 1 + Len(fb)

\* a rate-limit wait that ignores the Retry-After header
WaitRateLimitNoHeader(h, a) == Pow2(a) + 5

\* a server-error wait that does not grow with the attempt index
WaitServerErrorFlat(a) == 1

\* the waits before the next attempt, by failure kind, at attempt index a
WaitRateLimit(h, a) == IF h.present THEN h.value ELSE Pow2(a) + 5
WaitServerError(a) == Pow2(a) + 1
WaitOther(a) == Pow2(a) + 2
WaitConnection(a) == Pow2(a) + 1

\* an error message that drops the exchange's code and msg
ErrorMsgStatusOnly(body) == "API request failed: Status 400, Response: " \o body.text

\* lines 297-304: the message of the exception for a client/business error
ErrorMsg(body) ==
    IF body.json
    THEN "API error " \o body.code \o ": " \o body.msg
    ELSE "API request failed: Status 400, Response: " \o body.text

AllEndpointsMsg == "API request failed after trying all endpoints"
ConnectionMsg == "All API endpoints failed"

\* the request requests.request is called with (lines 250-251, 267-274)
Request == [method |-> method, url |-> url, endpoint |-> endpoint,
            headers |-> <<<<"X-MBX-APIKEY", ApiKey>>>>, params |-> params]

Failure(kind, h, body, slept, wait) ==
    [kind |-> kind, header |-> h, body |-> body, n |-> nAttempts + 1, attempt |-> attempt,
     endpoint_attempt |-> endpoint_attempt, slept |-> slept, wait |-> wait]

\* the outer loop goes to its next iteration (lines 249-250), where the URL is
\* computed from self.base_url, or ends (line 342)
NextEndpointAttempt(bu) ==
    IF endpoint_attempt + 1 < max_endpoint_attempts
    THEN /\ endpoint_attempt' = endpoint_attempt + 1
         /\ attempt' = 0
         /\ url' = bu
         /\ UNCHANGED <<spc, result>>
    ELSE /\ spc' = "raised"
         /\ result' = Raised(AllEndpointsMsg)
         /\ UNCHANGED <<endpoint_attempt, attempt, url>>

\* `continue` in the retry loop (lines 289, 294, 314, 328)
Continue ==
    /\ UNCHANGED <<base_url, fallback_urls>>
    /\ IF attempt + 1 < retry_count
       THEN /\ attempt' = attempt + 1
            /\ UNCHANGED <<endpoint_attempt, url, spc, result>>
       ELSE NextEndpointAttempt(base_url)

Raise(msg) ==
    /\ spc' = "raised"
    /\ result' = Raised(msg)
    /\ UNCHANGED <<endpoint_attempt, attempt, url>>

\* the last attempt of a retry loop failed (lines 317-322, 332-336)
SwitchOrRaise(msg) ==
    IF endpoint_attempt < max_endpoint_attempts - 1
    THEN LET sw == switch_endpoint
         IN  /\ base_url' = sw.base_url
             /\ fallback_urls' = sw.fallback_urls
             /\ IF sw.switched THEN NextEndpointAttempt(sw.base_url) ELSE Raise(msg)
    ELSE /\ UNCHANGED <<base_url, fallback_urls>>
         /\ Raise(msg)

\* one call of requests.request by the call in progress
Sent ==
    /\ spc = "send"
    /\ GatewayFrame
    /\ lastReq' = Request
    /\ nAttempts' = nAttempts + 1
    /\ UNCHANGED <<method, endpoint, signed, params, retry_count, max_endpoint_attempts,
                   url0, fb0>>

\* _send_request is entered (lines 227-254)
SendRequest(op, rc, ts) ==
    /\ spc = "idle"
    /\ GatewayFrame
    /\ method' = op.method
    /\ endpoint' = op.endpoint
    /\ signed' = op.signed
    /\ params' = IF op.signed THEN SignParams(op.params, ts, RecvWindow) ELSE op.params
    /\ retry_count' = rc
    /\ max_endpoint_attempts' = MaxEndpointAttempts(fallback_urls)
    /\ endpoint_attempt' = 0
    /\ attempt' = 0
    /\ url' = base_url
    /\ IF rc > 0
       THEN spc' = "send" /\ result' = NoResult
       ELSE spc' = "raised" /\ result' = Raised(AllEndpointsMsg)
    /\ url0' = base_url
    /\ fb0' = fallback_urls
    /\ nAttempts' = 0
    /\ lastReq' = NoRequest
    /\ last' = NoFailure
    /\ UNCHANGED <<base_url, fallback_urls>>

\* status 200 (lines 276-277); response.json() raises on a body that is not JSON
Resp200(valid) ==
    /\ Sent
    /\ spc' = IF valid THEN "returned" ELSE "raised"
    /\ result' = IF valid THEN Returned("body") ELSE Raised("JSONDecodeError")
    /\ UNCHANGED <<base_url, fallback_urls, endpoint_attempt, attempt, url, last>>

\* status 429 (lines 278-289); int() raises on a Retry-After that is no number
Resp429(h) ==
    /\ Sent
    /\ IF h.present /\ ~h.numeric
       THEN /\ last' = Failure("429", h, NoBody, FALSE, 0)
            /\ Raise("ValueError")
            /\ UNCHANGED <<base_url, fallback_urls>>
       ELSE /\ last' = Failure("429", h, NoBody, TRUE, WaitRateLimit(h, attempt))
            /\ Continue

\* status >= 500 (lines 290-294)
Resp5xx ==
    /\ Sent
    /\ last' = Failure("5xx", NoHeader, NoBody, TRUE, WaitServerError(attempt))
    /\ Continue

\* any other status (lines 295-322)
RespOther(body) ==
    /\ Sent
    /\ IF attempt < retry_count - 1
       THEN /\ last' = Failure("other", NoHeader, body, TRUE, WaitOther(attempt))
            /\ Continue
       ELSE /\ last' = Failure("other", NoHeader, body, FALSE, 0)
            /\ SwitchOrRaise(ErrorMsg(body))

\* requests raises Timeout or ConnectionError (lines 323-336)
RespTimeout ==
    /\ Sent
    /\ IF attempt < retry_count - 1
       THEN /\ last' = Failure("timeout", NoHeader, NoBody, TRUE, WaitConnection(attempt))
            /\ Continue
       ELSE /\ last' = Failure("timeout", NoHeader, NoBody, FALSE, 0)
            /\ SwitchOrRaise(ConnectionMsg)

\* the call has returned or raised: its frame is gone, the client keeps
\* self.base_url and self.fallback_urls
CallEnds ==
    /\ spc \in {"returned", "raised"}
    /\ GatewayFrame
    /\ spc' = "idle"
    /\ method' = ""
    /\ endpoint' = ""
    /\ signed' = FALSE
    /\ params' = <<>>
    /\ retry_count' = 0
    /\ max_endpoint_attempts' = 0
    /\ endpoint_attempt' = 0
    /\ attempt' = 0
    /\ url' = ""
    /\ result' = NoResult
    /\ url0' = ""
    /\ fb0' = <<>>
    /\ nAttempts' = 0
    /\ lastReq' = NoRequest
    /\ last' = NoFailure
    /\ UNCHANGED <<base_url, fallback_urls>>

HttpAttempt ==
    \/ \E valid \in BOOLEAN : Resp200(valid)
    \/ \E h \in RetryAfterHeaders : Resp429(h)
    \/ Resp5xx
    \/ \E body \in ErrorBodies : RespOther(body)
    \/ RespTimeout

(***************************************************************************)
(* The specifications                                                      *)
(***************************************************************************)
\* one client making _send_request calls
InitGateway ==
    /\ base_url = PrimaryUrl
    /\ fallback_urls \in FallbackLists
    /\ GatewayIdle
    /\ CacheEmpty
    /\ RawIdle
    /\ reader = ""
    /\ ReadIdle
    /\ ThreadsIdle
    /\ ConfigDefault
    /\ BotIdle
    /\ PmIdle
    /\ RunIdle
    /\ GridIdle
    /\ ManagerIdle

NextGateway ==
    \/ \E op \in Operations, rc \in 0..MaxRetry, ts \in 1..MaxStamp : SendRequest(op, rc, ts)
    \/ HttpAttempt
    \/ CallEnds

\* every HTTP attempt ends (connect and read timeouts, line 272) and every
\* sleep is finite, so a call in progress takes its next step
SpecGateway == InitGateway /\ [][NextGateway]_vars /\ WF_vars(HttpAttempt)

(***************************************************************************)
(* Properties of _send_request                                             *)
(***************************************************************************)
\* the URLs the retry loops of the call would go through if every exhausted
\* loop moved to the next fallback: the URL at the call's start, then the
\* fallbacks present at the call's start

\* one client whose two cache functions are called with any key, payload and ttl
InitCache ==
    /\ base_url = PrimaryUrl
    /\ fallback_urls = <<>>
    /\ GatewayIdle
    /\ CacheEmpty
    /\ RawIdle
    /\ reader = ""
    /\ ReadIdle
    /\ ThreadsIdle
    /\ ConfigDefault
    /\ BotIdle
    /\ PmIdle
    /\ RunIdle
    /\ GridIdle
    /\ ManagerIdle

NextCache ==
    \/ \E key \in RawKeys, data \in RawPayloads, ttl \in 0..MaxTtl : StoreInCache(key, data, ttl)
    \/ \E key \in RawKeys : GetFromCache(key)
    \/ TickCache

SpecCache == InitCache /\ [][NextCache]_vars

\* one client on which one of the cached reads is called again and again; the
\* four reads use cache keys of their own
InitReads ==
    /\ base_url = PrimaryUrl
    /\ fallback_urls = <<>>
    /\ GatewayIdle
    /\ CacheEmpty
    /\ RawIdle
    /\ reader \in Readers
    /\ ReadIdle
    /\ ThreadsIdle
    /\ ConfigDefault
    /\ BotIdle
    /\ PmIdle
    /\ RunIdle
    /\ GridIdle
    /\ ManagerIdle

NextReads ==
    \/ \E symbol \in Symbols, out \in PriceResponses : GetCurrentPrice(symbol, out)
    \/ \E out \in AccountResponses : GetAccountInfo(out)
    \/ \E outs \in [1..4 -> KlinesResponses] : GetKlines(outs)
    \/ \E out \in TickerResponses : GetHighVolumePairs(out)
    \/ TickReads

SpecReads == InitReads /\ [][NextReads]_vars

\* two threads calling get_current_price on the client they share
InitThreads ==
    /\ base_url = PrimaryUrl
    /\ fallback_urls = <<>>
    /\ GatewayIdle
    /\ CacheEmpty
    /\ RawIdle
    /\ reader = ""
    /\ ReadIdle
    /\ ThreadsIdle
    /\ ConfigDefault
    /\ BotIdle
    /\ PmIdle
    /\ RunIdle
    /\ GridIdle
    /\ ManagerIdle

NextThreads ==
    \/ \E t \in Threads, symbol \in Symbols : CallPrice(t, symbol)
    \/ \E t \in Threads : TestIn(t)
    \/ \E t \in Threads : ReadEntry(t)
    \/ \E t \in Threads : TestExpiry(t)
    \/ \E t \in Threads : Delete(t)
    \/ \E t \in Threads, out \in {Failed} \cup {Ok(FloatV(p)) : p \in 100..101 \cup 200..201} :
            RequestPrice(t, out)
    \/ \E t \in Threads : StorePrice(t)
    \/ \E t \in Threads : Returns(t)
    \/ TickThreads

SpecThreads == InitThreads /\ [][NextThreads]_vars

\* one bot running entry cycles, under any notification settings
InitBot ==
    /\ base_url = PrimaryUrl
    /\ fallback_urls = <<>>
    /\ GatewayIdle
    /\ CacheEmpty
    /\ RawIdle
    /\ reader = ""
    /\ ReadIdle
    /\ ThreadsIdle
    /\ telegram_enabled \in BOOLEAN
    /\ notify_signals \in BOOLEAN
    /\ notify_entries \in BOOLEAN
    /\ hedge_mode \in BOOLEAN
    /\ allow_both \in BOOLEAN
    /\ auto_hedge \in BOOLEAN
    /\ b_pc = "idle"
    /\ submitted = <<>>
    /\ signal = ""
    /\ should_hedge = FALSE
    /\ b_hedge_side = ""
    /\ b_pnl_info = NonePnlInfo
    /\ b_quantity = Num(0)
    /\ market_price \in MarketPrices
    /\ risk_entries = FlatRisk(hedge_mode, market_price)
    /\ fills = 0
    /\ PmIdle
    /\ RunIdle
    /\ GridIdle
    /\ ManagerIdle

NextBot ==
    \/ \E p \in MarketPrices : PriceMoves(p)
    \/ \E i \in DOMAIN risk_entries : PositionCloses(i)
    \/ CycleBegins
    \/ \E out \in {"ok", "insufficient", "failed"} : GetMarketData(out)
    \/ \E sig \in Sides \cup {"", "error"} : CheckSignal(sig)
    \/ \E price_ok \in BOOLEAN, account \in WalletReads : PreparesEntry(price_ok, account)
    \/ \E ok \in BOOLEAN : PlaceMarketOrder(ok)
    \/ \E is_profitable \in BOOLEAN : AdjustsTakeProfit(is_profitable)
    \/ \E ok \in BOOLEAN : PlaceTakeProfit(ok)
    \/ \E ok \in BOOLEAN : PlaceStopLoss(ok)
    \/ Reports
    \/ CycleEnds

SpecBot == InitBot /\ [][NextBot]_vars

\* one per-symbol unit from TradingBot() to the end of run(), with Telegram
\* configured or not
InitRun ==
    /\ base_url = PrimaryUrl
    /\ fallback_urls = <<>>
    /\ GatewayIdle
    /\ CacheEmpty
    /\ RawIdle
    /\ reader = ""
    /\ ReadIdle
    /\ ThreadsIdle
    /\ telegram_enabled \in BOOLEAN
    /\ notify_signals = FALSE
    /\ notify_entries = TRUE
    /\ hedge_mode = TRUE
    /\ allow_both = TRUE
    /\ auto_hedge = FALSE
    /\ b_pc = "idle"
    /\ submitted = <<>>
    /\ signal = ""
    /\ should_hedge = FALSE
    /\ b_hedge_side = ""
    /\ b_pnl_info = NonePnlInfo
    /\ b_quantity = Num(0)
    /\ market_price \in MarketPrices
    /\ risk_entries = FlatRisk(hedge_mode, market_price)
    /\ fills = 0
    /\ PmIdle
    /\ RunIdle
    /\ GridIdle
    /\ ManagerIdle

NextRun ==
    \/ DayPasses
    \/ StopRequested
    \/ RunStarts
    \/ LoopTest
    \/ CheckForNewDay
    \/ \E pnl_summary \in DailyPnlReads : CheckDailyPnl(pnl_summary)
    \/ RunCallsCycle
    \/ RunSkipsCycle
    \/ \E out \in {"ok", "insufficient", "failed"} : GetMarketData(out)
    \/ \E sig \in Sides \cup {"", "error"} : CheckSignal(sig)
    \/ \E price_ok \in BOOLEAN, account \in WalletReads : PreparesEntry(price_ok, account)
    \/ \E ok \in BOOLEAN : PlaceMarketOrder(ok)
    \/ \E is_profitable \in BOOLEAN : AdjustsTakeProfit(is_profitable)
    \/ \E ok \in BOOLEAN : PlaceTakeProfit(ok)
    \/ \E ok \in BOOLEAN : PlaceStopLoss(ok)
    \/ Reports
    \/ RunCycleReturns
    \/ Sleeps
    \/ RunCycleRaises
    \/ Handler

\* the steps of the unit's own thread, which the scheduler keeps running
UnitSteps ==
    \/ RunStarts
    \/ LoopTest
    \/ CheckForNewDay
    \/ \E pnl_summary \in DailyPnlReads : CheckDailyPnl(pnl_summary)
    \/ RunCallsCycle
    \/ RunSkipsCycle
    \/ \E out \in {"ok", "insufficient", "failed"} : GetMarketData(out)
    \/ \E sig \in Sides \cup {"", "error"} : CheckSignal(sig)
    \/ \E price_ok \in BOOLEAN, account \in WalletReads : PreparesEntry(price_ok, account)
    \/ \E ok \in BOOLEAN : PlaceMarketOrder(ok)
    \/ \E is_profitable \in BOOLEAN : AdjustsTakeProfit(is_profitable)
    \/ \E ok \in BOOLEAN : PlaceTakeProfit(ok)
    \/ \E ok \in BOOLEAN : PlaceStopLoss(ok)
    \/ Reports
    \/ RunCycleReturns
    \/ Sleeps
    \/ Handler

SpecRun == InitRun /\ [][NextRun]_vars /\ WF_vars(UnitSteps)

\* BotManager from main's start_all on, with the units' threads dying at any
\* time; the scheduler keeps the main thread and the monitor thread running
InitManager ==
    /\ base_url = PrimaryUrl
    /\ fallback_urls = <<>>
    /\ GatewayIdle
    /\ CacheEmpty
    /\ RawIdle
    /\ reader = ""
    /\ ReadIdle
    /\ ThreadsIdle
    /\ ConfigDefault
    /\ BotIdle
    /\ PmIdle
    /\ RunIdle
    /\ GridIdle
    /\ m_use_high_volume \in BOOLEAN
    /\ m_symbols \in SUBSET Symbols \ {{}}
    /\ m_closed = {}
    /\ m_bots = [sym \in Symbols |-> 0]
    /\ m_threads = <<>>
    /\ m_units = <<>>
    /\ m_main_pc = "start_all"
    /\ m_main_ret = "spawn"
    /\ m_todo = ListOf(m_symbols)
    /\ m_new_symbols = {}
    /\ m_updates = 0
    /\ m_updated = FALSE
    /\ m_attempted = {}
    /\ mon_pc = "off"
    /\ mon_i = 0
    /\ mon_used = 0
    /\ mon_len = 0
    /\ sb_symbol = NoStart
    /\ sb_pc = [t \in Threads |-> "none"]

MainSteps ==
    \/ StartAll
    \/ SpawnsMonitor
    \/ MainUpdates
    \/ \E ranking \in SUBSET Symbols : UpdateRanks(ranking)
    \/ UpdateStops
    \/ UpdateStarts
    \/ \E out \in {"ok", "closed", "error"} : StartBotChecks("main", out)
    \/ StartBotRegisters("main")

MonitorSteps ==
    \/ MonitorWakes
    \/ MonitorNext
    \/ \E out \in {"ok", "closed", "error"} : StartBotChecks("monitor", out)
    \/ StartBotRegisters("monitor")

NextManager ==
    \/ \E u \in DOMAIN m_units : UnitDies(u)
    \/ MainSteps
    \/ MonitorSteps

SpecManager == InitManager /\ [][NextManager]_vars /\ WF_vars(MainSteps) /\ WF_vars(MonitorSteps)

\* one GridTradingBot from run() on, with the exchange filling its orders at
\* any time, Telegram configured or not
InitGrid ==
    /\ base_url = PrimaryUrl
    /\ fallback_urls = <<>>
    /\ GatewayIdle
    /\ CacheEmpty
    /\ RawIdle
    /\ reader = ""
    /\ ReadIdle
    /\ ThreadsIdle
    /\ telegram_enabled \in BOOLEAN
    /\ notify_signals = FALSE
    /\ notify_entries = TRUE
    /\ hedge_mode = TRUE
    /\ allow_both = TRUE
    /\ auto_hedge = FALSE
    /\ BotIdle
    /\ PmIdle
    /\ RunIdle
    /\ ManagerIdle
    /\ GridIdle

\* the steps of GridTradingBot.run, which goes on as long as it has not died
GridBotSteps ==
    \/ GridRunStarts
    \/ \E current_price \in GridPrices, price_ok \in BOOLEAN : GridReadsPrice(current_price, price_ok)
    \/ \E balance_ok \in BOOLEAN, value_ok \in BOOLEAN : GridRemovesDust(balance_ok, value_ok)
    \/ \E trades_ok \in BOOLEAN : GridReadsTrades(trades_ok)
    \/ \E balance_ok \in BOOLEAN : GridHandlesTrade(balance_ok)
    \/ GridExecutionsDone
    \/ \E order_ok \in BOOLEAN, value_ok \in BOOLEAN, place_ok \in BOOLEAN, balance_ok \in BOOLEAN :
          GridChecksBuy(order_ok, value_ok, place_ok, balance_ok)
    \/ \E order_ok \in BOOLEAN, place_ok \in BOOLEAN, balance_ok \in BOOLEAN :
          GridChecksSell(order_ok, place_ok, balance_ok)
    \/ GridSleeps
    \/ GridHandler

NextGrid ==
    \/ \E id \in DOMAIN g_orders, parts \in {1, 2} : OrderFills(id, parts)
    \/ GridBotSteps

SpecGrid == InitGrid /\ [][NextGrid]_vars

\* the grid bot on an exchange that also closes orders without a fill; the
\* run loop keeps taking steps
NextGridLive ==
    \/ NextGrid
    \/ \E id \in DOMAIN g_orders : OrderExpires(id)

SpecGridLive == InitGrid /\ [][NextGridLive]_vars /\ WF_vars(GridBotSteps)

\* PositionManager's functions and the two account settings of BinanceClient,
\* each evaluated on every input of the model
InitPm ==
    /\ base_url = PrimaryUrl
    /\ fallback_urls = <<>>
    /\ GatewayIdle
    /\ CacheEmpty
    /\ RawIdle
    /\ reader = ""
    /\ ReadIdle
    /\ ThreadsIdle
    /\ ConfigDefault
    /\ BotIdle
    /\ PmIdle
    /\ RunIdle
    /\ GridIdle
    /\ ManagerIdle

\* a call is made when the one before has returned
NextPm ==
    \/ PmReturns
    \/ PmIdle /\ \E account \in AccountInfos, positions \in OpenPositions, price \in Prices,
          leverage \in Leverages, precision \in QuantityPrecisions :
            CalculatePositionSize(account, positions, price, leverage, precision)
    \/ PmIdle /\ \E account \in AccountInfos, usage_account \in AccountInfos, positions_ok \in BOOLEAN,
          positions \in OpenPositions, price \in Prices, leverage \in {0, 10} :
            CalculatePositionSizeReads(account, usage_account, positions_ok, positions, price,
                                       leverage, quantityPrecision)
    \/ PmIdle /\ \E hedge_mode_arg \in BOOLEAN, mode_read \in PositionModeReads, default_mode \in BOOLEAN,
          post_reply \in PositionModeReplies :
            SetPositionMode(hedge_mode_arg, mode_read, default_mode, post_reply)
    \/ PmIdle /\ \E leverage \in RequestedLeverages, brackets_read \in BracketReads,
          symbol_max \in SymbolMaxLeverages, other_at \in 0 .. MaxRequests :
            \E valid_up_to \in {0, 1, 3, symbol_max} :
                SetLeverage(leverage, brackets_read, symbol_max, valid_up_to, other_at)
    \/ PmIdle /\ \E entry_price \in EntryPrices, position_side \in Sides,
          tp_percent \in TakeProfitPercents, sl_percent \in StopLossPercents,
          precision \in PricePrecisions :
            CalculateExitPrices(entry_price, position_side, tp_percent, sl_percent, precision)
    \/ PmIdle /\ \E position_amt \in PositionAmounts, current_price \in Prices,
          ratio \in HedgeRatios, precision \in QuantityPrecisions :
            CalculateHedgePositionSize(position_amt, current_price, ratio, precision)
    \/ PmIdle /\ \E auto \in BOOLEAN, position_risk \in PositionRisks,
          profit_threshold \in ProfitThresholds, loss_threshold \in LossThresholds :
            ShouldHedgePosition(auto, position_risk, profit_threshold, loss_threshold)
    \/ PmIdle /\ \E hedge \in BOOLEAN, allow \in BOOLEAN, position_risk \in PositionRisks,
          position_side \in Sides :
            CanEnterPosition(hedge, allow, position_risk, position_side)

SpecPm == InitPm /\ [][NextPm]_vars

UrlPlan == <<url0>> \o fb0

AttemptBound == retry_count * (1 + Len(fb0))

\* C2: every call of _send_request terminates: it performs at most
\* retry_count x (1 + number of fallback URLs at the call's start) HTTP
\* attempts, and then has returned the body of a 200 response or has raised.
C2_SendRequestTerminates ==
    /\ [](nAttempts <= AttemptBound)
    /\ [](spc = "send" => nAttempts < AttemptBound)
    /\ [](spc = "returned" => result = Returned("body"))
    /\ [](spc = "raised" => result.type = "error")
    /\ (spc = "send") ~> (spc \in {"returned", "raised"})

\* a call that used every attempt the bound allows, and raised
C2_Witness ==
    /\ spc = "raised"
    /\ retry_count = MaxRetry
    /\ Len(fb0) = MaxFallbacks
    /\ nAttempts = AttemptBound

\* C3: a retry loop that follows an exhausted retry loop is sent to the next
\* fallback URL, popped from the list, whatever the kind of the failures that
\* exhausted the loop before it; the call raises only when no loop is left.
C3_FailoverAfterExhaustion ==
    spc = "send" =>
        /\ url = UrlPlan[endpoint_attempt + 1]
        /\ fallback_urls = SubSeq(fb0, endpoint_attempt + 1, Len(fb0))

\* C4 as claimed: a client/business error response ends the call at once, with
\* a failure that carries the exchange's error code and message.
C4_ClientErrorNotRetried ==
    (last.kind = "other" /\ last.n = nAttempts) =>
        /\ spc = "raised"
        /\ last.body.json =>
               result.value = "API error " \o last.body.code \o ": " \o last.body.msg

\* C4 as amended: a client/business error response is retried like the other
\* failures: before the last attempt of its retry loop the call sleeps
\* 2^a + 2 seconds and sends the request again to the same URL; on the last
\* attempt it goes on to the next fallback URL while a retry loop is left;
\* only on the last attempt of the last loop is the failure raised at once,
\* and it then carries the exchange's error code and message.
C4_ClientErrorRetried ==
    (last.kind = "other" /\ last.n = nAttempts) =>
        \/ /\ last.attempt < retry_count - 1
           /\ last.slept /\ last.wait = Pow2(last.attempt) + 2
           /\ spc = "send"
           /\ attempt = last.attempt + 1
           /\ endpoint_attempt = last.endpoint_attempt
           /\ url = lastReq.url
        \/ /\ last.attempt = retry_count - 1
           /\ last.endpoint_attempt < max_endpoint_attempts - 1
           /\ ~last.slept
           /\ spc = "send"
           /\ attempt = 0
           /\ endpoint_attempt = last.endpoint_attempt + 1
        \/ /\ last.attempt = retry_count - 1
           /\ last.endpoint_attempt = max_endpoint_attempts - 1
           /\ ~last.slept
           /\ spc = "raised"
           /\ result.type = "error"
           /\ last.body.json =>
                  result.value = "API error " \o last.body.code \o ": " \o last.body.msg

\* a client/business error with {code, msg} was retried, came again on the
\* last attempt, and was raised
C4_Witness ==
    /\ last.kind = "other" /\ last.n = nAttempts
    /\ last.body.json
    /\ last.attempt = 2
    /\ spc = "raised"
    /\ result.value = "API error -4028: Leverage 200 is not valid"

\* C5 as claimed: after a 429 at attempt index a with a Retry-After of r
\* seconds the call waits max(r, 2^a + 5) seconds.
C5_WaitIsMaxOfRetryAfterAndBackoff ==
    (last.kind = "429" /\ last.header.present /\ last.header.numeric) =>
        /\ last.slept
        /\ last.wait = Max(last.header.value, Pow2(last.attempt) + 5)

\* C5 as amended: after a 429 at attempt index a with a Retry-After of r
\* seconds the call waits exactly r seconds, also when r is below 2^a + 5;
\* the backoff 2^a + 5 is used only when the header is absent.
C5_WaitIsRetryAfter ==
    /\ (last.kind = "429" /\ last.header.present /\ last.header.numeric) =>
           (last.slept /\ last.wait = last.header.value)
    /\ (last.kind = "429" /\ ~last.header.present) =>
           (last.slept /\ last.wait = Pow2(last.attempt) + 5)

\* a 429 with Retry-After: 1 at attempt 1, where the backoff would be 7
C5_Witness ==
    /\ last.kind = "429"
    /\ last.header.present /\ last.header.numeric /\ last.header.value = 1
    /\ last.attempt = 1
    /\ last.slept /\ last.wait = 1

\* the constant c of the backoff 2^a + c of a failure kind
BackoffConstant(kind) ==
    CASE kind = "429" -> 5
      [] kind = "5xx" -> 1
      [] kind = "other" -> 2
      [] OTHER -> 1

\* C6 as claimed: without Retry-After the wait after every failed attempt of
\* index a is 2^a + 5 (429), 2^a + 1 (>= 500), 2^a + 2 (other status), and for
\* a fixed failure kind the waits do not decrease from one failed attempt of a
\* call to the next.
C6_BackoffNonDecreasingInCall ==
    /\ [](  (last.kind \in {"429", "5xx", "other"} /\ ~last.header.present)
         => (last.slept /\ last.wait = Pow2(last.attempt) + BackoffConstant(last.kind)))
    /\ [][  (/\ last.kind \in {"429", "5xx", "other"}
             /\ last'.kind = last.kind
             /\ last'.n > last.n
             /\ ~last.header.present /\ ~last'.header.present)
         => last'.wait >= last.wait ]_vars

\* C6 as amended: without Retry-After the wait after a failed attempt of index
\* a is 2^a + 5 (429) and 2^a + 1 (>= 500) after every attempt, and 2^a + 2
\* (other status) after every attempt but the last of its retry loop, after
\* which the call does not wait; for a fixed failure kind the waits do not
\* decrease from one failed attempt to the next within one retry loop (they
\* start again from the attempt-0 value in the retry loop that follows).
C6_BackoffNonDecreasingInLoop ==
    /\ [](  (last.kind \in {"429", "5xx"} /\ ~last.header.present)
         => (last.slept /\ last.wait = Pow2(last.attempt) + BackoffConstant(last.kind)))
    /\ [](  last.kind = "other"
         => /\ last.slept <=> last.attempt < retry_count - 1
            /\ last.slept => last.wait = Pow2(last.attempt) + 2)
    /\ [][  (/\ last.kind \in {"429", "5xx", "other"}
             /\ last'.kind = last.kind
             /\ last'.n > last.n
             /\ last'.endpoint_attempt = last.endpoint_attempt
             /\ last.slept /\ last'.slept
             /\ ~last.header.present /\ ~last'.header.present)
         => last'.wait >= last.wait ]_vars

\* two 429 responses without Retry-After at attempts 0 and 1: the second wait
C6_Witness ==
    /\ last.kind = "429" /\ ~last.header.present
    /\ last.attempt = 1 /\ last.n = 2
    /\ last.slept /\ last.wait = 7

\* C10: every HTTP attempt of a signed call carries the API-key header and
\* timestamp, recvWindow and a signature, the signature being computed over
\* the url-encoded query of exactly the other parameters sent; an attempt of
\* an unsigned call carries none of timestamp, recvWindow, signature.  The
\* operations on account, position mode, leverage, orders, user trades and
\* income are signed.
SignedOperations == {"get_account_info", "set_position_mode", "set_leverage",
                     "place_market_order", "get_recent_trades", "get_income_history"}

C10_SignedRequestsCarrySignature ==
    /\ \A op \in Operations : op.name \in SignedOperations => op.signed
    /\ lastReq # NoRequest =>
        IF signed
        THEN /\ \E i \in 1..Len(lastReq.headers) : lastReq.headers[i] = <<"X-MBX-APIKEY", ApiKey>>
             /\ HasKey(lastReq.params, "timestamp")
             /\ HasKey(lastReq.params, "recvWindow")
             /\ HasKey(lastReq.params, "signature")
             /\ DictGet(lastReq.params, "signature") =
                    "hmac(" \o ApiSecret \o ","
                    \o urlencode(DictRemove(lastReq.params, "signature")) \o ")"
        ELSE /\ ~HasKey(lastReq.params, "timestamp")
             /\ ~HasKey(lastReq.params, "recvWindow")
             /\ ~HasKey(lastReq.params, "signature")

\* a retried attempt of a signed order placement
C10_Witness ==
    /\ signed
    /\ lastReq.endpoint = "/fapi/v1/order"
    /\ nAttempts = 2
    /\ HasKey(lastReq.params, "signature")

(***************************************************************************)
(* Properties of the cache functions                                       *)
(***************************************************************************)
\* C7: after _store_in_cache(key, payload, ttl), a _get_from_cache(key) made
\* before ttl seconds have elapsed returns the payload as stored; one made once
\* ttl seconds have elapsed returns a miss and removes the entry (so every
\* later lookup misses too, until the key is stored again); a key never
\* stored misses.
C7_CacheRoundTripWithinTtl ==
    got.done =>
        LET st == stored[got.key]
        IN  IF st.valid /\ now - st.at < st.ttl
            THEN got.data = st.data /\ cache[got.key].present
            ELSE got.data = NoneV /\ ~cache[got.key].present

\* a lookup one second before expiry hit, on an entry stored with ttl 2
C7_Witness ==
    /\ got.done
    /\ stored[got.key].valid
    /\ stored[got.key].ttl = 2
    /\ now = stored[got.key].at + 1
    /\ got.data = FloatV(2)

\* C8: a second call of a cached read with the same arguments, made before
\* the entry stored by the first has expired, sends no HTTP request and
\* returns the value the call that stored the entry returned.
C8_SecondReadWithinTtlIsServedFromCache ==
    (call.done /\ call.prior.valid /\ now < call.prior.expiry) =>
        /\ call.http = 0
        /\ ~call.raised
        /\ call.ret = call.prior.ret

\* C9: whatever the interleaving of two threads' cache steps on the client
\* they share, no cached read raises out of the cache, returns a payload that
\* has expired, or returns a payload stored under another key.
C9_SharedCacheIsThreadSafe ==
    \A t \in Threads :
        /\ t_outcome[t].kind # "KeyError"
        /\ t_outcome[t].kind = "hit" =>
              /\ t_outcome[t].at < t_outcome[t].expiry
              /\ \E sy \in Symbols :
                    t_cache_key[t] = PriceKey(sy) /\ t_outcome[t].ret.num \in PricesOf(sy)

(***************************************************************************)
(* Properties of the entry cycle                                           *)
(***************************************************************************)
EntryOrderTypes == <<"MARKET", "TAKE_PROFIT_MARKET", "STOP_MARKET">>

PositionSizeCalled == pm_call.fn = "calculate_position_size"

\* C11: calculate_position_size returns exactly 0 when the balance is not
\* positive or the account usage (total notional of the open positions over
\* the balance, times 100) is at or above MAX_ACCOUNT_USAGE, for every price
\* and leverage; otherwise, when the resulting notional reaches MIN_NOTIONAL,
\* it returns balance * min(POSITION_SIZE_PERCENT, MAX_ACCOUNT_USAGE - usage)
\* / 100 * marginPct(leverage) / 100 * leverage / price rounded to the
\* quantity precision, marginPct being 5, 4, 3, 2, 1 with the breakpoints
\* 25, 50, 75, 100.
C11_PositionSizeFormula ==
    PositionSizeCalled =>
        LET c == pm_call
            balance == IF c.account.ok THEN c.account.totalWalletBalance ELSE Num(0)
            usage == Mul(Div(get_total_position_value(c.positions), balance), Num(100))
            lev == IF c.leverage = 0 THEN LEVERAGE ELSE c.leverage
            marginPct == CASE lev <= 25 -> 5
                           [] lev > 25 /\ lev <= 50 -> 4
                           [] lev > 50 /\ lev <= 75 -> 3
                           [] lev > 75 /\ lev <= 100 -> 2
                           [] lev > 100 -> 1
            pct == fmin(Num(POSITION_SIZE_PERCENT), Sub(Num(MAX_ACCOUNT_USAGE), usage))
            notional == Mul(Mul(Mul(balance, Div(pct, Num(100))),
                                Div(Num(marginPct), Num(100))), Num(lev))
        IN  IF Le(balance, Num(0)) THEN c.quantity = Num(0)
            ELSE IF Le(Num(MAX_ACCOUNT_USAGE), usage) THEN c.quantity = Num(0)
            ELSE Le(Num(MIN_NOTIONAL_VALUE), notional)
                    => c.quantity = round(Div(notional, c.price), c.precision)

\* balance 10000, no open position, leverage 10, price 50000: 0.005
C11_Witness ==
    /\ PositionSizeCalled
    /\ pm_call.account = [ok |-> TRUE, totalWalletBalance |-> Num(10000)]
    /\ pm_call.positions = <<>>
    /\ pm_call.leverage = 10
    /\ pm_call.price = Num(50000)
    /\ pm_call.precision = 3
    /\ pm_call.quantity = Frac(5, 1000)

\* C12: for every input, the quantity q returned after rounding satisfies
\* q * price >= MIN_NOTIONAL (5), or q is 0.
C12_RoundedNotionalReachesMinimum ==
    PositionSizeCalled =>
        \/ pm_call.quantity = Num(0)
        \/ Le(Num(MIN_NOTIONAL_VALUE), Mul(pm_call.quantity, pm_call.price))
(***************************************************************************)
(* Exit prices                                                             *)
(***************************************************************************)
\* C13: for every entry price and positive take-profit and stop-loss
\* percentages, the rounded prices satisfy TP > entry > SL for a LONG entry
\* and SL > entry > TP for a SHORT entry, and the fee-widened take-profit of
\* check_and_enter_position stays on the same side of the entry.
C13_ExitPricesOnTheirSideOfEntry ==
    pm_call.fn = "exit prices" =>
        LET c == pm_call
        IN  IF c.position_side = "LONG"
            THEN /\ Lt(c.entry_price, c.tp_price)
                 /\ Lt(c.sl_price, c.entry_price)
                 /\ Lt(c.entry_price, c.adjusted_tp_price)
            ELSE /\ Lt(c.tp_price, c.entry_price)
                 /\ Lt(c.entry_price, c.sl_price)
                 /\ Lt(c.adjusted_tp_price, c.entry_price)
(***************************************************************************)
(* Hedging                                                                 *)
(***************************************************************************)
\* C14: calculate_hedge_position_size returns |original quantity| *
\* HEDGE_POSITION_SIZE_RATIO, raised to MIN_NOTIONAL / price when its notional
\* is below MIN_NOTIONAL, and never exceeds the original position's absolute
\* quantity, for every original position, price and ratio.
C14_HedgeSizeNeverAboveOriginal ==
    pm_call.fn = "calculate_hedge_position_size" =>
        LET c == pm_call
            original == fabs(c.position_amt)
            by_ratio == Mul(original, c.ratio)
            minimum == Div(Num(MIN_NOTIONAL_VALUE), c.current_price)
        IN  /\ Le(c.quantity, original)
            /\ Le(Num(MIN_NOTIONAL_VALUE), Mul(by_ratio, c.current_price))
                    => c.quantity = round(by_ratio, c.precision)
            /\ (Lt(Mul(by_ratio, c.current_price), Num(MIN_NOTIONAL_VALUE))
                    /\ Le(minimum, original))
                    => c.quantity = round(minimum, c.precision)
\* the price move of an open entry in percent of its entry price, times the
\* leverage
PnlPercent(p) ==
    IF Lt(Num(0), p.positionAmt)
    THEN Mul(Mul(Sub(Div(p.markPrice, p.entryPrice), Num(1)), Num(100)), Num(p.leverage))
    ELSE Mul(Mul(Sub(Div(p.entryPrice, p.markPrice), Num(1)), Num(100)), Num(p.leverage))

\* C15: should_hedge_position returns (False, None, None) when AUTO_HEDGE is
\* off and (False, None, pnl) when both a LONG and a SHORT position are open;
\* otherwise it returns (True, S, pnl) exactly when the single open side's
\* PnL percent is >= AUTO_HEDGE_PROFIT_THRESHOLD or <= -AUTO_HEDGE_LOSS_THRESHOLD,
\* and S is always the side opposite to the open position.
C15_HedgeDecision ==
    pm_call.fn = "should_hedge_position" =>
        LET c == pm_call
            r == c.returned
            open == SelectSeq(c.position_risk, LAMBDA p : p.positionAmt # Num(0))
            crossed == /\ Len(open) = 1
                       /\ \/ Le(c.profit_threshold, PnlPercent(open[1]))
                          \/ Le(PnlPercent(open[1]), Sub(Num(0), c.loss_threshold))
        IN  IF ~c.auto_hedge
            THEN ~r.should_hedge /\ r.hedge_side = "" /\ r.pnl_info.none
            ELSE /\ ~r.pnl_info.none
                 /\ Len(open) = 2 => ~r.should_hedge /\ r.hedge_side = ""
                 /\ r.should_hedge <=> crossed
                 /\ r.should_hedge =>
                        r.hedge_side = IF Lt(Num(0), open[1].positionAmt) THEN "SHORT" ELSE "LONG"
                 /\ ~r.should_hedge => r.hedge_side = ""

\* a LONG position whose PnL percent is exactly the profit threshold is hedged
\* with a SHORT
C15_Witness ==
    /\ pm_call.fn = "should_hedge_position"
    /\ pm_call.auto_hedge
    /\ pm_call.profit_threshold = Num(1)
    /\ pm_call.position_risk =
            <<Btc("LONG", Frac(1, 10), 50000, 50050), Btc("SHORT", Num(0), 0, 50000)>>
    /\ pm_call.returned.should_hedge
    /\ pm_call.returned.hedge_side = "SHORT"
(***************************************************************************)
(* Entering a position                                                     *)
(***************************************************************************)
\* C18: with HEDGE_MODE disabled, on a one-way account (whose positions the
\* exchange reports with positionSide BOTH, the side being the sign of the
\* amount), can_enter_position(side) returns False whenever the symbol has a
\* non-zero position, on the same or on the opposite side.
C18_OneWayModeRefusesWhilePositionOpen ==
    (/\ pm_call.fn = "can_enter_position"
     /\ ~pm_call.hedge_mode
     /\ \E i \in DOMAIN pm_call.position_risk :
            /\ pm_call.position_risk[i].positionSide = "BOTH"
            /\ pm_call.position_risk[i].positionAmt # Num(0))
        => ~pm_call.returned
\* the symbol has a non-zero position on the side
SideOpen(risk, side) ==
    \E i \in DOMAIN risk :
        /\ risk[i].positionAmt # Num(0)
        /\ IF side = "LONG" THEN IsLongEntry(risk[i]) ELSE IsShortEntry(risk[i])

\* C17: a signal for a side on which the symbol already has an open position
\* leads to no market, take-profit or stop-loss order, for any HEDGE_MODE and
\* ALLOW_BOTH_POSITIONS: over consecutive cycles a side is entered at most
\* once.  (The first order of a cycle is its market entry.)
C17_NoEntryOnSideAlreadyOpen ==
    [][(submitted = <<>> /\ submitted' # <<>>) => ~SideOpen(risk_entries, signal)]_vars

\* the quantity calculate_hedge_position_size gives the hedging cycle
HedgeQuantity ==
    calculate_hedge_position_size(
        IF b_hedge_side = "SHORT" THEN b_pnl_info.long_position ELSE b_pnl_info.short_position,
        market_price, HEDGE_POSITION_SIZE_RATIO, quantityPrecision)
CycleOver == b_pc \in {"returned", "raised"}
HedgeOrdersAreForHedgeSide ==
    \A i \in 1..Len(submitted) :
        /\ submitted[i].position_side = b_hedge_side
        /\ submitted[i].type = "MARKET" => submitted[i].quantity = HedgeQuantity

Suspended ==
    /\ ~is_trading_allowed
    /\ b_pc = "idle"
    /\ submitted = <<>>

\* C19: once check_daily_pnl has reported the daily profit target or loss
\* limit reached, the unit submits no order in any later cycle for as long as
\* start_of_day is the day of that report; the step of check_for_new_day that
\* observes a later UTC day allows trading again
C19_SuspendedUntilNewDay ==
    /\ [](reported = start_of_day => Suspended)
    /\ [][start_of_day' > start_of_day => is_trading_allowed']_vars

\* a limit was reported, a later day was observed, and a cycle of that later
\* day has submitted an order
C19_Witness ==
    /\ reported >= 0
    /\ start_of_day > reported
    /\ is_trading_allowed
    /\ submitted # <<>>

C21_NotificationFailureIsHarmless ==
    /\ b_pc # "raised"
    /\ (CycleOver /\ submitted # <<>> /\ submitted[1].ok) => Len(submitted) = 3
    /\ r_pc # "died"

(***************************************************************************)
(* The run flag                                                            *)
(***************************************************************************)
RunOver == r_pc \in {"stopped", "died"}

\* C24: once is_running is False the unit begins no new cycle (the while test
\* never leads into the loop body again), and the unit, after at most the
\* cycle in progress, leaves its loop
C24_StoppedUnitExits ==
    /\ [][~(~is_running /\ r_pc = "loop" /\ r_pc' = "new day")]_vars
    /\ (~is_running) ~> RunOver

\* a unit that has traded was told to stop and has left its loop
C24_Witness ==
    /\ ~is_running
    /\ r_pc = "stopped"
    /\ fills > 0

(***************************************************************************)
(* The supervisor                                                          *)
(***************************************************************************)
\* a traded symbol, not marked closed, without a unit whose thread is alive
Orphan(sym) ==
    /\ sym \in m_symbols
    /\ sym \notin m_closed
    /\ ~HasLiveUnit(sym)

\* start_bot is under way for the symbol
StartUnderWay(sym) == \E t \in Threads : sb_symbol[t] = sym

\* C22: whenever a traded symbol that is not marked closed has no unit alive
\* (its thread died or its start failed), a start of a unit for it follows,
\* unless the symbol leaves the traded set or is marked closed
C22_OrphanIsStartedAgain ==
    \A sym \in Symbols : Orphan(sym) ~> (~Orphan(sym) \/ StartUnderWay(sym))

\* the symbols outside the new set of the last update_trading_pairs
Dropped == Symbols \ m_new_symbols

\* C23: once update_trading_pairs has run to its end with a new set that is
\* not empty, whatever the monitor thread did meanwhile: no symbol outside
\* the new set has an entry in bots or threads or a unit alive with its run
\* flag still True, start_bot was called for every symbol of the new set, and
\* the monitor thread has not been ended by an exception
C23_UpdateLeavesOnlyTheNewSet ==
    m_updated =>
        /\ \A sym \in Dropped :
              /\ m_bots[sym] = 0
              /\ sym \notin ThreadKeys(m_threads)
              /\ \A u \in DOMAIN m_units :
                    (m_units[u].symbol = sym /\ m_units[u].alive) => ~m_units[u].is_running
        /\ m_new_symbols \subseteq m_attempted
        /\ mon_pc # "dead"

\* check_order_executions is handling the trade at the head of those it read
HandlingTrade ==
    /\ g_pc = "trade"
    /\ g_seen # <<>>
    /\ <<g_pc, g_seen>>' # <<g_pc, g_seen>>

\* the trade being handled belongs to the active buy order
HeadIsActiveBuy == active_buy_order_id # 0 /\ Head(g_seen).orderId = active_buy_order_id

\* the trade being handled belongs to the active sell order
HeadIsActiveSell == active_sell_order_id # 0 /\ Head(g_seen).orderId = active_sell_order_id

\* C25: both grid indexes stay within the configured levels; the buy index
\* changes only by +1 when a fill of the active buy order is handled (or to 0
\* when a fill of the active sell order is), the sell index only by +1 or to
\* 0 when a fill of the active sell order is handled or to 0 at the dust
\* check; the lowest price, once set, never increases
C25_IndexesAndLowestPrice ==
    /\ [](/\ current_grid_buy_index \in 0 .. Len(GRID_BUY_TRIGGER_PERCENTAGES) - 1
          /\ current_grid_sell_index \in 0 .. Len(GRID_SELL_TRIGGER_PERCENTAGES) - 1)
    /\ [][/\ current_grid_buy_index' # current_grid_buy_index =>
                /\ HandlingTrade
                /\ \/ HeadIsActiveBuy /\ current_grid_buy_index' = current_grid_buy_index + 1
                   \/ HeadIsActiveSell /\ current_grid_buy_index' = 0
          /\ current_grid_sell_index' # current_grid_sell_index =>
                \/ /\ HandlingTrade
                   /\ HeadIsActiveSell
                   /\ current_grid_sell_index' \in {current_grid_sell_index + 1, 0}
                \/ g_pc = "dust" /\ current_grid_sell_index' = 0
          /\ ~IsNone(lowest_price) => ~IsNone(lowest_price') /\ Le(lowest_price', lowest_price)]_vars

\* both indexes at the last level, the buy index clamped there by the fill
\* of a buy at that level, and the lowest price lowered from 120 to 80.5
C25_Witness ==
    /\ current_grid_buy_index = Len(GRID_BUY_TRIGGER_PERCENTAGES) - 1
    /\ current_grid_sell_index = Len(GRID_SELL_TRIGGER_PERCENTAGES) - 1
    /\ \E id \in DOMAIN g_orders :
          /\ g_orders[id].side = "BUY"
          /\ g_orders[id].level = Len(GRID_BUY_TRIGGER_PERCENTAGES) - 1
          /\ g_orders[id].advances = 1
    /\ g_orders[1].placed_price = Num(120)
    /\ lowest_price = Frac(161, 2)

\* the fill of the active sell order being handled has left nothing of the
\* coin in the wallet
SellFillLiquidates ==
    /\ HandlingTrade
    /\ HeadIsActiveSell
    /\ ~IsNone(last_buy_price)
    /\ Le(g_balance, Frac(1, 10000))

\* C26: when the handled fill of the active sell order leaves the balance at
\* zero, the grid state is the initial one again: no last buy price, sell
\* index 0 and buy index 0
C26_LiquidationResetsGridState ==
    [][SellFillLiquidates =>
          /\ IsNone(last_buy_price')
          /\ current_grid_sell_index' = 0
          /\ current_grid_buy_index' = 0]_vars

\* the step places an order of the given side
Places(order_side) ==
    /\ Len(g_orders') = Len(g_orders) + 1
    /\ g_orders'[Len(g_orders')].side = order_side

\* C27: a buy order is placed only at a price at or under the trigger of the
\* buy index (the lowest price at index 0, the last buy price times the
\* level's percentage above it, the last buy price being known), and a sell
\* order only with a last buy price, a positive balance and a price at or
\* above the last buy price times the percentage of the sell index
C27_OrdersPlacedOnlyAtTrigger ==
    [][/\ Places("BUY") =>
             \/ current_grid_buy_index = 0 /\ Le(g_price, lowest_price')
             \/ /\ current_grid_buy_index > 0
                /\ ~IsNone(last_buy_price)
                /\ Le(g_price, Mul(last_buy_price,
                                   GRID_BUY_TRIGGER_PERCENTAGES[current_grid_buy_index + 1]))
       /\ Places("SELL") =>
             /\ ~IsNone(last_buy_price)
             /\ Lt(Num(0), g_balance)
             /\ Le(Mul(last_buy_price, GRID_SELL_TRIGGER_PERCENTAGES[current_grid_sell_index + 1]),
                   g_price)]_vars

\* a buy of the second level and sells of both levels have been placed, and
\* a cycle with the price above the trigger of the second level placed no buy
C27_Witness ==
    /\ \E id \in DOMAIN g_orders : g_orders[id].side = "BUY" /\ g_orders[id].level = 1
    /\ \E id \in DOMAIN g_orders : g_orders[id].side = "SELL" /\ g_orders[id].level = 0
    /\ g_orders[1].side = "BUY" /\ g_orders[1].level = 0
    /\ g_pc = "sleep"
    /\ g_price = Num(120)
    /\ active_buy_order_id = 0
    /\ current_grid_buy_index = 1
    /\ g_log = <<>>

\* C28: in a cycle whose buy step finds the active buy order still NEW and
\* the price more than 1 % under the price it was placed at, the order is
\* cancelled, before anything is placed
C28_StaleBuyOrderIsCancelled ==
    g_stale => (g_log # <<>> /\ Head(g_log) = "cancel")

\* the last buy price after a buy fill at executed_price: the fill price when
\* there was none, else the total budget of the previous and the current
\* level over the quantity that budget bought at the two prices
WeightedLastBuyPrice(executed_price) ==
    IF IsNone(last_buy_price) THEN executed_price
    ELSE LET previous_budget == GRID_BUY_QUANTITIES_USDT[current_grid_buy_index]
             current_budget == GRID_BUY_QUANTITIES_USDT[current_grid_buy_index + 1]
         IN  Div(Add(previous_budget, current_budget),
                 Add(Div(previous_budget, last_buy_price), Div(current_budget, executed_price)))

\* C29: handling a trade of the active buy order sets the last buy price
\* (the fill price, or the budget-weighted average with the previous one),
\* moves the buy index on by one, clamped at the last level, and clears the
\* active buy order; no order moves the index on more than once
C29_BuyFillAdvancesOnce ==
    /\ [](\A id \in DOMAIN g_orders : g_orders[id].advances <= 1)
    /\ [][(HandlingTrade /\ HeadIsActiveBuy) =>
             /\ last_buy_price' = WeightedLastBuyPrice(Head(g_seen).price)
             /\ current_grid_buy_index' =
                   IF current_grid_buy_index + 1 < Len(GRID_BUY_TRIGGER_PERCENTAGES)
                   THEN current_grid_buy_index + 1
                   ELSE Len(GRID_BUY_TRIGGER_PERCENTAGES) - 1
             /\ active_buy_order_id' = 0]_vars

\* a second-level buy at 80.5 after a first buy at 120, filled in two trades,
\* both handled: the last buy price is their average 57960/641 and the order
\* has moved the index on once
C29_Witness ==
    /\ g_pc = "trade"
    /\ g_seen = <<>>
    /\ active_buy_order_id = 0
    /\ last_buy_price = Frac(57960, 641)
    /\ \E id \in DOMAIN g_orders :
          /\ g_orders[id].side = "BUY"
          /\ g_orders[id].level = 1
          /\ g_orders[id].advances = 1
          /\ \E i, j \in DOMAIN g_trades : i < j /\ g_trades[i].orderId = id /\ g_trades[j].orderId = id

\* C30: handling a trade of the active sell order clears the active sell
\* order and moves the sell index on by one, clamped at the last level, or
\* sets it to 0 with the last buy price removed
C30_SellFillIsConsumed ==
    [][(HandlingTrade /\ HeadIsActiveSell) =>
          /\ active_sell_order_id' = 0
          /\ \/ current_grid_sell_index' = next_grid_index(current_grid_sell_index,
                                                           Len(GRID_SELL_TRIGGER_PERCENTAGES))
             \/ current_grid_sell_index' = 0 /\ IsNone(last_buy_price')]_vars

\* the step made a placement of the given kind that raised
PlacementFails(failed) ==
    /\ Len(g_log') > Len(g_log)
    /\ \E i \in Len(g_log) + 1 .. Len(g_log') : g_log'[i] = failed

\* C31: a placement that fails is passed to notify_error, records no active
\* order for its side, leaves the indexes, the last buy price and the lowest
\* price as they were and places nothing; a cycle makes at most one
\* placement attempt for each side
C31_FailedPlacementLeavesGridState ==
    /\ [](/\ Cardinality({i \in DOMAIN g_log : g_log[i] \in {"buy", "buy failed"}}) <= 1
          /\ Cardinality({i \in DOMAIN g_log : g_log[i] \in {"sell", "sell failed"}}) <= 1
          /\ \A i \in DOMAIN g_log :
                g_log[i] \in {"buy failed", "sell failed"} =>
                    i < Len(g_log) /\ g_log[i + 1] = "notify_error")
    /\ [][/\ PlacementFails("buy failed") => active_buy_order_id' = 0
          /\ PlacementFails("sell failed") => active_sell_order_id' = 0
          /\ (PlacementFails("buy failed") \/ PlacementFails("sell failed")) =>
                /\ Len(g_orders') = Len(g_orders)
                /\ <<last_buy_price, lowest_price, current_grid_buy_index,
                     current_grid_sell_index>>' =
                   <<last_buy_price, lowest_price, current_grid_buy_index,
                     current_grid_sell_index>>]_vars

\* a cycle with coin held whose sell placement raised: notify_error was
\* called, no sell order is active and the cycle went on to its sleep
C31_Witness ==
    /\ g_pc = "sleep"
    /\ g_log = <<"sell failed", "notify_error">>
    /\ active_sell_order_id = 0
    /\ ~IsNone(last_buy_price)
    /\ current_grid_buy_index = 1

\* C32: the stop price, the limit price and the quantity of every order the
\* grid bot has submitted are values rounded to the symbol's precision:
\* rounding them again gives the same value
C32_SubmittedValuesAreRounded ==
    \A id \in DOMAIN g_orders :
        /\ g_orders[id].stop_price = round_price(g_orders[id].stop_price, pricePrecision)
        /\ g_orders[id].limit_price = round_price(g_orders[id].limit_price, pricePrecision)
        /\ g_orders[id].quantity = round_quantity(g_orders[id].quantity, quantityPrecision)

\* calculate_position_size returned with at least one of its reads failed
SizingReadFailed ==
    /\ pm_call.fn = "position size reads"
    /\ (~pm_call.account.ok \/ ~pm_call.usage_account.ok \/ ~pm_call.positions_ok)

\* C33: when the fetch of the balance or of the open positions fails during
\* sizing, calculate_position_size returns 0: it never returns a non-zero
\* size computed from the usage of 0% that the failed fetch resolves to
C33_FailedFetchGivesNoSize ==
    SizingReadFailed => pm_call.quantity = Num(0)

\* C34: whatever the account's current position mode, set_position_mode(h)
\* sends a signed POST to /fapi/v1/positionSide/dual with dualSidePosition
\* "true" or "false" as h and recvWindow 60000, and when the exchange answers
\* that POST its response is what the call returns
C34_PositionModeIsPosted ==
    pm_call.fn = "set_position_mode" =>
        /\ \E i \in DOMAIN pm_call.returned.requests :
               LET request == pm_call.returned.requests[i]
               IN  /\ request.method = "POST"
                   /\ request.path = "/fapi/v1/positionSide/dual"
                   /\ request.params.dualSidePosition =
                          (IF pm_call.hedge_mode THEN "true" ELSE "false")
                   /\ request.signed
                   /\ request.recv_window = 60000
        /\ pm_call.post_reply = "response" => pm_call.returned.result = "response"

SetLeverageCalled == pm_call.fn = "set_leverage"

\* what get_max_leverage returned in the k-th call of a set_leverage chain
MaxLeverageRead(k) ==
    get_max_leverage(LeverageBrackets(pm_call.brackets_read[k], pm_call.symbol_max))

\* the claim as stated: at most one retry, and no request above the
\* symbol's maximum leverage
C35_Original_OneRetryUnderSymbolMaximum ==
    SetLeverageCalled =>
        /\ Len(pm_call.returned.requests) <= 2
        /\ \A k \in DOMAIN pm_call.returned.requests :
               pm_call.returned.requests[k] <= pm_call.symbol_max

\* C35: set_leverage asks for min(leverage, what get_max_leverage returned);
\* on a failure "is not valid" of a request above 1 it halves (integer
\* division, never below 1) and asks again, as often as that happens; it
\* returns the first response, and raises any other failure and the
\* refusal of leverage 1; no request is above what get_max_leverage
\* returned in its call
C35_HalvesUntilAcceptedOrOne ==
    SetLeverageCalled =>
        LET requests == pm_call.returned.requests
            reply(k) == leverage_reply(requests[k], k, pm_call.valid_up_to, pm_call.other_at)
        IN  /\ requests # <<>>
            /\ requests[1] = Min(pm_call.leverage, MaxLeverageRead(1))
            /\ \A k \in DOMAIN requests :
                   /\ requests[k] >= 1
                   /\ requests[k] <= MaxLeverageRead(k)
                   /\ k < Len(requests) =>
                          /\ reply(k) = "is not valid"
                          /\ requests[k] > 1
                          /\ requests[k + 1] = Min(requests[k] \div 2, MaxLeverageRead(k + 1))
            /\ pm_call.returned.result = reply(Len(requests))
            /\ pm_call.returned.result = "is not valid" => requests[Len(requests)] = 1

\* a chain of four requests, 20, 10, 5 and 2, the last one accepted, for a
\* symbol whose brackets could not be fetched
C35_Witness ==
    /\ SetLeverageCalled
    /\ pm_call.returned = [requests |-> <<20, 10, 5, 2>>, result |-> "response"]
    /\ pm_call.symbol_max = 4

\* the grid is Idle with nothing in the way of a first-level buy: no last
\* buy price, no active buy order, coin held for less than 10 USD and the
\* price at or under the lowest price seen
IdleAtLowest ==
    /\ IsNone(last_buy_price)
    /\ active_buy_order_id = 0
    /\ Lt(get_coin_value_in_usdt(g_balance, g_price), Num(10))
    /\ Le(g_price, lowest_price)

\* a buy order of the bot was filled before
HasHeld == \E id \in DOMAIN g_orders : g_orders[id].side = "BUY" /\ g_orders[id].status = "FILLED"

\* the step of check_and_place_buy_order
ChecksBuy == g_pc = "buy" /\ g_pc' # "buy"

\* what check_and_place_buy_order does at a first-level buy: it places the
\* order of level 0, or the placement or a read it needs fails
FirstLevelBuyAttempted ==
    \/ Places("BUY") /\ g_orders'[Len(g_orders')].level = 0
    \/ PlacementFails("buy failed")
    \/ g_pc' = "handler"

\* C36: once the grid is Idle again after having held coin, a cycle that
\* finds no active buy order, coin worth less than 10 USD and the price at
\* or under the lowest price places a buy order of grid level 0
C36_IdleGridBuysAgain ==
    [][(ChecksBuy /\ HasHeld /\ IdleAtLowest) => FirstLevelBuyAttempted]_vars

\* the notional calculate_position_size computes before its minimum test,
\* for the call just made
RawNotional ==
    LET leverage == IF pm_call.leverage = 0 THEN LEVERAGE ELSE pm_call.leverage
        available_percent ==
            Sub(Num(MAX_ACCOUNT_USAGE),
                get_account_usage_percentage(pm_call.account, pm_call.positions))
    IN  Mul(Mul(Mul(get_account_balance(pm_call.account),
                    Div(fmin(Num(POSITION_SIZE_PERCENT), available_percent), Num(100))),
                Div(Num(get_margin_percentage(leverage)), Num(100))),
            Num(leverage))

\* the call got as far as the minimum test and found the notional under it
BelowMinNotional ==
    /\ PositionSizeCalled
    /\ Lt(Num(0), get_account_balance(pm_call.account))
    /\ Lt(get_account_usage_percentage(pm_call.account, pm_call.positions),
          Num(MAX_ACCOUNT_USAGE))
    /\ Lt(RawNotional, Num(MIN_NOTIONAL_VALUE))

\* the balance share the minimum quantity takes at the call's leverage
\* (min_quantity_value) is covered by the balance
BalanceCoversMinimum ==
    LET leverage == IF pm_call.leverage = 0 THEN LEVERAGE ELSE pm_call.leverage
    IN  Le(Mul(Div(Num(MIN_NOTIONAL_VALUE), Num(leverage)),
               Div(Num(100), Num(get_margin_percentage(leverage)))),
           get_account_balance(pm_call.account))

\* C37: when the raw notional is below MIN_NOTIONAL, calculate_position_size
\* returns MIN_NOTIONAL / price rounded to the quantity precision if the
\* balance covers the minimum quantity, and 0 only if it does not
C37_MinimumQuantityWhenAffordable ==
    BelowMinNotional =>
        IF BalanceCoversMinimum
        THEN pm_call.quantity =
                 round_quantity(Div(Num(MIN_NOTIONAL_VALUE), pm_call.price), pm_call.precision)
        ELSE pm_call.quantity = Num(0)

\* C38: the notional of the quantity calculate_position_size returns is at
\* most (MAX_ACCOUNT_USAGE - usage) percent of the balance, and 0 at a usage
\* at or above MAX_ACCOUNT_USAGE, so that an entry never takes the open
\* notional above MAX_ACCOUNT_USAGE percent of the balance
C38_EntryStaysUnderMaxAccountUsage ==
    (PositionSizeCalled /\ Lt(Num(0), get_account_balance(pm_call.account))) =>
        LET balance == get_account_balance(pm_call.account)
            usage == get_account_usage_percentage(pm_call.account, pm_call.positions)
            headroom == fmax(Num(0), Sub(Num(MAX_ACCOUNT_USAGE), usage))
        IN  Le(Mul(pm_call.quantity, pm_call.price), Mul(balance, Div(headroom, Num(100))))

\* the bot's orders of a side that are open on the exchange
OpenOrders(order_side) ==
    {id \in DOMAIN g_orders : g_orders[id].side = order_side /\ g_orders[id].status = "NEW"}

\* C39: at any time at most one buy order and at most one sell order of the
\* bot is open on the exchange, also after a get_order or cancel_order
\* request for the previous order failed
C39_OneOpenOrderPerSide ==
    /\ Cardinality(OpenOrders("BUY")) <= 1
    /\ Cardinality(OpenOrders("SELL")) <= 1

\* the active buy order id refers to order id, which the exchange closed
\* without a fill
ActiveBuyExpired(id) ==
    /\ active_buy_order_id = id
    /\ id \in DOMAIN g_orders
    /\ g_orders[id].status = "EXPIRED"

ActiveSellExpired(id) ==
    /\ active_sell_order_id = id
    /\ id \in DOMAIN g_orders
    /\ g_orders[id].status = "EXPIRED"

\* C40: an active buy or sell order id that refers to an order closed on the
\* exchange without a fill is eventually cleared or replaced, as long as the
\* run loop goes on
C40_ExpiredOrderIdIsCleared ==
    \A id \in 1 .. MaxOrders :
        /\ ActiveBuyExpired(id) ~> (active_buy_order_id # id \/ g_pc = "died")
        /\ ActiveSellExpired(id) ~> (active_sell_order_id # id \/ g_pc = "died")
====
